---- MODULE Spec2Model ----
(***************************************************************************)
(* Verification model of the watch-market core: the variation classifier   *)
(* (BobsWatchesScraper.detect_watch_variations) and the free-text listing  *)
(* extractor (WhatsAppWatchParser, EnhancedWhatsAppProcessor).             *)
(*                                                                         *)
(* Texts are strings; a character is a string of length one.  The regular  *)
(* expressions of the source are kept as syntax trees (Str, Chr, Cat, Alt, *)
(* Rep, NotAhead) and matched by a backtracking matcher that yields the     *)
(* end positions of a match in the priority order of Python's re module.   *)
(***************************************************************************)
EXTENDS Integers, Sequences, FiniteSets, TLC

\* ------------------------------------------------------------------------
\* Characters
\* ------------------------------------------------------------------------
None == "None"
Absent == "Absent"

UPPER == {"A","B","C","D","E","F","G","H","I","J","K","L","M",
          "N","O","P","Q","R","S","T","U","V","W","X","Y","Z"}
LOWER == {"a","b","c","d","e","f","g","h","i","j","k","l","m",
          "n","o","p","q","r","s","t","u","v","w","x","y","z"}
DIGIT == {"0","1","2","3","4","5","6","7","8","9"}
SPACE == {" ", "\t", "\n", "\r", "\f"}

LowerMap ==
    ("A" :> "a") @@ ("B" :> "b") @@ ("C" :> "c") @@ ("D" :> "d") @@
    ("E" :> "e") @@ ("F" :> "f") @@ ("G" :> "g") @@ ("H" :> "h") @@
    ("I" :> "i") @@ ("J" :> "j") @@ ("K" :> "k") @@ ("L" :> "l") @@
    ("M" :> "m") @@ ("N" :> "n") @@ ("O" :> "o") @@ ("P" :> "p") @@
    ("Q" :> "q") @@ ("R" :> "r") @@ ("S" :> "s") @@ ("T" :> "t") @@
    ("U" :> "u") @@ ("V" :> "v") @@ ("W" :> "w") @@ ("X" :> "x") @@
    ("Y" :> "y") @@ ("Z" :> "z")

UpperMap ==
    ("a" :> "A") @@ ("b" :> "B") @@ ("c" :> "C") @@ ("d" :> "D") @@
    ("e" :> "E") @@ ("f" :> "F") @@ ("g" :> "G") @@ ("h" :> "H") @@
    ("i" :> "I") @@ ("j" :> "J") @@ ("k" :> "K") @@ ("l" :> "L") @@
    ("m" :> "M") @@ ("n" :> "N") @@ ("o" :> "O") @@ ("p" :> "P") @@
    ("q" :> "Q") @@ ("r" :> "R") @@ ("s" :> "S") @@ ("t" :> "T") @@
    ("u" :> "U") @@ ("v" :> "V") @@ ("w" :> "W") @@ ("x" :> "X") @@
    ("y" :> "Y") @@ ("z" :> "Z")

LowerChar(c) == IF c \in UPPER THEN LowerMap[c] ELSE c
UpperChar(c) == IF c \in LOWER THEN UpperMap[c] ELSE c

\* str.lower(), character by character (the text is split in halves to keep
\* the evaluation shallow)
RECURSIVE Lower(_)
Lower(s) ==
    IF Len(s) <= 1 THEN LowerChar(s)
    ELSE Lower(SubSeq(s, 1, Len(s) \div 2)) \o Lower(SubSeq(s, Len(s) \div 2 + 1, Len(s)))

\* str.upper()
RECURSIVE Upper(_)
Upper(s) ==
    IF Len(s) <= 1 THEN UpperChar(s)
    ELSE Upper(SubSeq(s, 1, Len(s) \div 2)) \o Upper(SubSeq(s, Len(s) \div 2 + 1, Len(s)))

\* keyword in text
Contains(text, kw) ==
    \E i \in 1..(Len(text) - Len(kw) + 1) : SubSeq(text, i, i + Len(kw) - 1) = kw

\* ------------------------------------------------------------------------
\* Regular expressions (the subset of Python's re the source uses)
\* ------------------------------------------------------------------------
Str(s) == [op |-> "str", str |-> s]
Chr(S) == [op |-> "chr", set |-> S]
NotChr(S) == [op |-> "nchr", set |-> S]
AnyChar == [op |-> "any"]
Cat(items) == [op |-> "cat", items |-> items]
Alt(items) == [op |-> "alt", items |-> items]
\* hi = -1: no upper limit
Rep(sub, lo, hi) == [op |-> "rep", sub |-> sub, lo |-> lo, hi |-> hi, greedy |-> TRUE]
LazyRep(sub, lo, hi) == [op |-> "rep", sub |-> sub, lo |-> lo, hi |-> hi, greedy |-> FALSE]
NotAhead(sub) == [op |-> "nla", sub |-> sub]
AtEnd == [op |-> "eos"]
AtStart == [op |-> "bos"]
WordB == [op |-> "wordb"]
Empty == Cat(<<>>)
Plus(sub) == Rep(sub, 1, -1)
Star(sub) == Rep(sub, 0, -1)
Opt(sub) == Rep(sub, 0, 1)

Ch(t, i) == SubSeq(t, i, i)

InClass(c, S, ic) ==
    \/ c \in S
    \/ ic /\ (LowerChar(c) \in S \/ UpperChar(c) \in S)

WordChar(c) == c \in UPPER \cup LOWER \cup DIGIT \cup {"_"}

SameChar(a, b, ic) == IF ic THEN LowerChar(a) = LowerChar(b) ELSE a = b

\* The literal s stands at position i of t
LiteralAt(s, t, i, ic) ==
    /\ i + Len(s) - 1 <= Len(t)
    /\ \A k \in 1..Len(s) : SameChar(Ch(t, i + k - 1), Ch(s, k), ic)

\* Ends(n, t, i, ic): the positions after a match of node n that starts at
\* position i of t (1-based; a position is the index of the next character),
\* in the order in which a backtracking matcher tries them.
RECURSIVE Ends(_, _, _, _), CatEnds(_, _, _, _, _), AltEnds(_, _, _, _, _),
          RepFrom(_, _, _, _, _), RepAll(_, _, _, _, _)
Ends(n, t, i, ic) ==
    CASE n.op = "str" ->
            IF LiteralAt(n.str, t, i, ic) THEN <<i + Len(n.str)>> ELSE <<>>
      [] n.op = "chr" ->
            IF i <= Len(t) /\ InClass(Ch(t, i), n.set, ic) THEN <<i + 1>> ELSE <<>>
      [] n.op = "nchr" ->
            IF i <= Len(t) /\ ~InClass(Ch(t, i), n.set, ic) THEN <<i + 1>> ELSE <<>>
      [] n.op = "any" ->
            IF i <= Len(t) /\ Ch(t, i) # "\n" THEN <<i + 1>> ELSE <<>>
      [] n.op = "cat" -> CatEnds(n.items, 1, t, <<i>>, ic)
      [] n.op = "alt" -> AltEnds(n.items, 1, t, i, ic)
      [] n.op = "rep" -> RepFrom(n, t, i, 0, ic)
      [] n.op = "nla" -> IF Ends(n.sub, t, i, ic) = <<>> THEN <<i>> ELSE <<>>
      [] n.op = "eos" ->
            IF i = Len(t) + 1 \/ (i = Len(t) /\ Ch(t, i) = "\n") THEN <<i>> ELSE <<>>
      [] n.op = "bos" -> IF i = 1 THEN <<i>> ELSE <<>>
      [] n.op = "wordb" ->
            IF (i > 1 /\ WordChar(Ch(t, i - 1))) # (i <= Len(t) /\ WordChar(Ch(t, i)))
            THEN <<i>> ELSE <<>>

CatEnds(items, k, t, ps, ic) ==
    IF k > Len(items) THEN ps
    ELSE IF ps = <<>> THEN <<>>
    ELSE CatEnds(items, k + 1, t, Ends(items[k], t, Head(ps), ic), ic)
            \o CatEnds(items, k, t, Tail(ps), ic)

AltEnds(items, k, t, i, ic) ==
    IF k > Len(items) THEN <<>>
    ELSE Ends(items[k], t, i, ic) \o AltEnds(items, k + 1, t, i, ic)

\* A repetition of a one-character node: it can stop after lo..hi characters
\* of the run of matching characters that starts at i.
\* The ends for a run of which at most `most` characters can be taken
RunStops(n, i, most) ==
    IF most < n.lo THEN <<>>
    ELSE [k \in 1..(most - n.lo + 1) |->
            IF n.greedy THEN i + most - (k - 1) ELSE i + n.lo + (k - 1)]

\* The first position from i, no later than last, where the run ends
RunStop(n, t, i, last, ic) ==
    CHOOSE j \in i..last :
        /\ j = last \/ Ends(n.sub, t, j, ic) = <<>>
        /\ \A k \in i..(j - 1) : Ends(n.sub, t, k, ic) # <<>>

\* The length of the run, counted no further than hi characters
RunMost(n, t, i, ic) ==
    RunStop(n, t, i,
            IF n.hi = -1 \/ Len(t) + 1 < i + n.hi THEN Len(t) + 1 ELSE i + n.hi,
            ic) - i

RunEnds(n, t, i, ic) ==
    IF n.lo > 0 /\ Ends(n.sub, t, i, ic) = <<>> THEN <<>>
    ELSE RunStops(n, i, RunMost(n, t, i, ic))

RepFrom(n, t, i, c, ic) ==
    IF n.sub.op \in {"chr", "nchr", "any"} THEN RunEnds(n, t, i, ic)
    ELSE
    LET step == SelectSeq(Ends(n.sub, t, i, ic), LAMBDA e : e > i)
        more == IF n.hi = -1 \/ c < n.hi THEN RepAll(n, t, step, c + 1, ic) ELSE <<>>
        here == IF c >= n.lo THEN <<i>> ELSE <<>>
    IN  IF n.greedy THEN more \o here ELSE here \o more

RepAll(n, t, ps, c, ic) ==
    IF ps = <<>> THEN <<>>
    ELSE RepFrom(n, t, Head(ps), c, ic) \o RepAll(n, t, Tail(ps), c, ic)

\* A pattern is pre (group 1) post; flags is TRUE for re.IGNORECASE.
Pattern(pre, grp, post, ic) == [pre |-> pre, grp |-> grp, post |-> post, ic |-> ic]

NoMatch == [found |-> FALSE]

\* The match of pattern p that starts exactly at position i, if any: the first
\* in backtracking order over pre, then group 1, then post.
\* The match from i whose group 1 is t[a .. g-1], given the ends es of post
MatchWith(t, i, a, g, es) ==
    IF es = <<>> THEN NoMatch
    ELSE [found |-> TRUE, start |-> i, end |-> Head(es), g1 |-> SubSeq(t, a, g - 1)]

\* Backtracking: the match m if there is one, the next alternative otherwise
OrElse(m, other) == IF m.found THEN m ELSE other

RECURSIVE TryGroup(_, _, _, _, _), TryPre(_, _, _, _)
TryGroup(p, t, i, a, gs) ==
    IF gs = <<>> THEN NoMatch
    ELSE OrElse(MatchWith(t, i, a, Head(gs), Ends(p.post, t, Head(gs), p.ic)),
                TryGroup(p, t, i, a, Tail(gs)))

TryPre(p, t, i, as) ==
    IF as = <<>> THEN NoMatch
    ELSE OrElse(TryGroup(p, t, i, Head(as), Ends(p.grp, t, Head(as), p.ic)),
                TryPre(p, t, i, Tail(as)))

MatchAt(p, t, i) == TryPre(p, t, i, Ends(p.pre, t, i, p.ic))

\* re.search(p, t) restricted to starts >= i: the leftmost match.
\* at[s] is the match that starts at s: the one with the least start
Leftmost(at) ==
    LET starts == {s \in DOMAIN at : at[s].found}
    IN  IF starts = {} THEN NoMatch
        ELSE at[CHOOSE s \in starts : \A k \in starts : s <= k]

\* The characters a match of node n can begin with, where n cannot match the
\* empty text and they are known: a match is looked for only where one stands.
NoFirst == [known |-> FALSE, set |-> {}]

BothFirst(f, g) == [known |-> f.known /\ g.known, set |-> f.set \cup g.set]

OrFirst(f, g) == IF f.known THEN f ELSE g

RECURSIVE FirstOf(_), FirstOfAlt(_, _)
FirstOf(n) ==
    CASE n.op = "str" ->
            IF n.str = "" THEN NoFirst ELSE [known |-> TRUE, set |-> {Ch(n.str, 1)}]
      [] n.op = "chr" -> [known |-> TRUE, set |-> n.set]
      [] n.op = "cat" -> IF n.items = <<>> THEN NoFirst ELSE FirstOf(n.items[1])
      [] n.op = "alt" -> FirstOfAlt(n.items, 1)
      [] n.op = "rep" -> IF n.lo > 0 THEN FirstOf(n.sub) ELSE NoFirst
      [] OTHER -> NoFirst

FirstOfAlt(items, k) ==
    IF k > Len(items) THEN [known |-> TRUE, set |-> {}]
    ELSE BothFirst(FirstOf(items[k]), FirstOfAlt(items, k + 1))

FirstOfPattern(p) ==
    OrFirst(FirstOf(p.pre),
            IF p.pre # Empty THEN NoFirst
            ELSE OrFirst(FirstOf(p.grp),
                         IF p.grp # Empty THEN NoFirst ELSE FirstOf(p.post)))

CanStartAt(f, t, s, ic) ==
    ~f.known \/ (s <= Len(t) /\ InClass(Ch(t, s), f.set, ic))

\* at[s]: the match that starts at s, for every s from i
MatchesAt(p, t, i, f) ==
    [s \in i..(Len(t) + 1) |->
        IF CanStartAt(f, t, s, p.ic) THEN MatchAt(p, t, s) ELSE NoMatch]

SearchFrom(p, t, i) == Leftmost(MatchesAt(p, t, i, FirstOfPattern(p)))

Search(p, t) == SearchFrom(p, t, 1)

\* re.finditer(p, t): the successive non-overlapping matches, left to right.
\* An empty match is followed by a search from the next position.
RECURSIVE FindIterFrom(_, _, _), MatchesFrom(_, _, _)
MatchesFrom(p, t, m) ==
    IF ~m.found THEN <<>>
    ELSE <<m>> \o FindIterFrom(p, t, IF m.end > m.start THEN m.end ELSE m.end + 1)

FindIterFrom(p, t, i) == MatchesFrom(p, t, SearchFrom(p, t, i))

FindIter(p, t) == FindIterFrom(p, t, 1)

\* re.findall(p, t) for a pattern with one group: the group-1 texts.
Groups(ms) == [k \in 1..Len(ms) |-> ms[k].g1]

FindAll(p, t) == Groups(FindIter(p, t))

\* ------------------------------------------------------------------------
\* Pattern tables
\* ------------------------------------------------------------------------
\* WhatsAppWatchParser.price_patterns
price_patterns == <<
    Pattern(Str("$"), Cat(<<Plus(Chr(DIGIT \cup {","})), Opt(Cat(<<Str("."), Rep(Chr(DIGIT), 2, 2)>>))>>), Empty, TRUE),
    Pattern(Empty, Cat(<<Plus(Chr(DIGIT \cup {","})), Opt(Cat(<<Str("."), Rep(Chr(DIGIT), 2, 2)>>))>>), Cat(<<Star(Chr(SPACE)), Str("USD")>>), TRUE),
    Pattern(Empty, Plus(Chr(DIGIT)), Cat(<<Str("K"), NotAhead(Chr(DIGIT))>>), TRUE),
    Pattern(Empty, Plus(Chr(DIGIT \cup {","})), Cat(<<Star(Chr(SPACE)), Str("dollar"), Opt(Str("s"))>>), TRUE),
    Pattern(Cat(<<Str("USD"), Star(Chr(SPACE))>>), Plus(Chr(DIGIT \cup {","})), Empty, TRUE),
    Pattern(Cat(<<Str("asking"), Plus(Chr(SPACE)), Opt(Str("$"))>>), Plus(Chr(DIGIT \cup {","})), Opt(Str("K")), TRUE),
    Pattern(Cat(<<Str("budget"), Plus(Chr(SPACE)), Str("around"), Plus(Chr(SPACE))>>), Plus(Chr(DIGIT)), Str("K"), TRUE),
    Pattern(Str("$"), Plus(Chr(DIGIT)), Str("K"), TRUE)
>>

\* WhatsAppWatchParser.rolex_patterns
rolex_patterns == <<
    [pattern |-> Pattern(Cat(<<Alt(<<Str("Sub"), Str("Submariner")>>), Star(Chr(SPACE))>>), Rep(Chr(DIGIT), 4, 6), Empty, TRUE),
     brand |-> "Rolex", model |-> "Submariner"],
    [pattern |-> Pattern(Empty, Rep(Chr(DIGIT), 4, 6), Cat(<<Plus(Chr(SPACE)), Str("Sub"), Opt(Str("mariner"))>>), TRUE),
     brand |-> "Rolex", model |-> "Submariner"],
    [pattern |-> Pattern(Cat(<<Str("GMT"), Star(Chr(SPACE \cup {"-"})), Str("Master"), Star(Chr(SPACE))>>), Rep(Chr(DIGIT), 4, 5), Empty, TRUE),
     brand |-> "Rolex", model |-> "GMT-Master"],
    [pattern |-> Pattern(Empty, Rep(Chr(DIGIT), 4, 5), Cat(<<Plus(Chr(SPACE)), Str("GMT")>>), TRUE),
     brand |-> "Rolex", model |-> "GMT-Master"],
    [pattern |-> Pattern(Cat(<<Str("Day"), Star(Chr(SPACE \cup {"-"})), Str("Date"), Star(Chr(SPACE))>>), Rep(Chr(DIGIT), 4, 6), Empty, TRUE),
     brand |-> "Rolex", model |-> "Day-Date"],
    [pattern |-> Pattern(Cat(<<Str("DD"), Star(Chr(SPACE))>>), Rep(Chr(DIGIT), 4, 6), Empty, TRUE),
     brand |-> "Rolex", model |-> "Day-Date"],
    [pattern |-> Pattern(Empty, Rep(Chr(DIGIT), 4, 6), Cat(<<Plus(Chr(SPACE)), Str("DD")>>), TRUE),
     brand |-> "Rolex", model |-> "Day-Date"],
    [pattern |-> Pattern(Cat(<<Str("Daytona"), Star(Chr(SPACE))>>), Rep(Chr(DIGIT), 4, 6), Empty, TRUE),
     brand |-> "Rolex", model |-> "Daytona"],
    [pattern |-> Pattern(Empty, Rep(Chr(DIGIT), 4, 6), Cat(<<Plus(Chr(SPACE)), Str("Daytona")>>), TRUE),
     brand |-> "Rolex", model |-> "Daytona"],
    [pattern |-> Pattern(Cat(<<Str("Explorer"), Star(Chr(SPACE))>>), Rep(Chr(DIGIT), 4, 5), Empty, TRUE),
     brand |-> "Rolex", model |-> "Explorer"],
    [pattern |-> Pattern(Empty, Rep(Chr(DIGIT), 4, 5), Cat(<<Plus(Chr(SPACE)), Str("Explorer")>>), TRUE),
     brand |-> "Rolex", model |-> "Explorer"],
    [pattern |-> Pattern(Cat(<<Str("Sea"), Star(Chr(SPACE \cup {"-"})), Str("Dweller"), Star(Chr(SPACE))>>), Rep(Chr(DIGIT), 4, 5), Empty, TRUE),
     brand |-> "Rolex", model |-> "Sea-Dweller"],
    [pattern |-> Pattern(Empty, Rep(Chr(DIGIT), 4, 5), Cat(<<Plus(Chr(SPACE)), Str("Sea"), Star(Chr(SPACE \cup {"-"})), Str("Dweller")>>), TRUE),
     brand |-> "Rolex", model |-> "Sea-Dweller"],
    [pattern |-> Pattern(Cat(<<Str("Yacht"), Star(Chr(SPACE \cup {"-"})), Str("Master"), Star(Chr(SPACE))>>), Rep(Chr(DIGIT), 4, 6), Empty, TRUE),
     brand |-> "Rolex", model |-> "Yacht-Master"],
    [pattern |-> Pattern(Cat(<<Str("YM"), Star(Chr(SPACE))>>), Rep(Chr(DIGIT), 4, 6), Empty, TRUE),
     brand |-> "Rolex", model |-> "Yacht-Master"],
    [pattern |-> Pattern(Empty, Rep(Chr(DIGIT), 4, 6), Cat(<<Plus(Chr(SPACE)), Str("YM")>>), TRUE),
     brand |-> "Rolex", model |-> "Yacht-Master"],
    [pattern |-> Pattern(Cat(<<Str("Air"), Star(Chr(SPACE \cup {"-"})), Str("King"), Star(Chr(SPACE))>>), Rep(Chr(DIGIT), 4, 5), Empty, TRUE),
     brand |-> "Rolex", model |-> "Air-King"],
    [pattern |-> Pattern(Empty, Rep(Chr(DIGIT), 4, 5), Cat(<<Plus(Chr(SPACE)), Str("Air"), Star(Chr(SPACE \cup {"-"})), Str("King")>>), TRUE),
     brand |-> "Rolex", model |-> "Air-King"],
    [pattern |-> Pattern(Cat(<<Str("Milgauss"), Star(Chr(SPACE))>>), Rep(Chr(DIGIT), 4, 6), Empty, TRUE),
     brand |-> "Rolex", model |-> "Milgauss"],
    [pattern |-> Pattern(Empty, Rep(Chr(DIGIT), 4, 6), Cat(<<Plus(Chr(SPACE)), Str("Milgauss")>>), TRUE),
     brand |-> "Rolex", model |-> "Milgauss"],
    [pattern |-> Pattern(Cat(<<Str("Domino"), Opt(Str("'")), Str("s"), Star(Chr(SPACE)), Str("Pizza"), Star(Chr(SPACE))>>), Rep(Chr(DIGIT), 4, 6), Empty, TRUE),
     brand |-> "Rolex", model |-> "Oyster Perpetual"],
    [pattern |-> Pattern(Empty, Rep(Chr(DIGIT), 4, 6), Cat(<<Star(Chr(SPACE)), Alt(<<Cat(<<Str("Domino"), Opt(Str("'")), Str("s")>>), Str("Pizza")>>)>>), TRUE),
     brand |-> "Rolex", model |-> "Oyster Perpetual"],
    [pattern |-> Pattern(Cat(<<Str("Rolex"), Plus(Chr(SPACE))>>), Rep(Chr(DIGIT), 4, 6), Empty, TRUE),
     brand |-> "Rolex", model |-> None],
    [pattern |-> Pattern(Empty, Rep(Chr(DIGIT), 4, 6), Cat(<<Plus(Chr(SPACE)), Str("Rolex")>>), TRUE),
     brand |-> "Rolex", model |-> None]
>>

\* WhatsAppWatchParser.special_edition_patterns
special_edition_patterns == <<
    [pattern |-> Pattern(Alt(<<Str("Tiffany"), Str("T&Co"), Str("Tiffany & Co")>>), Empty, Empty, TRUE), edition |-> "Tiffany & Co"],
    [pattern |-> Pattern(Alt(<<Str("Tropical"), Str("Tropicalized")>>), Empty, Empty, TRUE), edition |-> "Tropical"],
    [pattern |-> Pattern(Alt(<<Str("Spider"), Str("Spider dial")>>), Empty, Empty, TRUE), edition |-> "Spider"],
    [pattern |-> Pattern(Alt(<<Str("COMEX"), Str("Comex")>>), Empty, Empty, TRUE), edition |-> "COMEX"],
    [pattern |-> Pattern(Alt(<<Cat(<<Str("Domino"), Opt(Str("'")), Str("s")>>), Str("Pizza")>>), Empty, Empty, TRUE), edition |-> "Domino's"],
    [pattern |-> Pattern(Alt(<<Str("Military"), Str("Mil-Sub")>>), Empty, Empty, TRUE), edition |-> "Military"],
    [pattern |-> Pattern(Alt(<<Str("Paul Newman"), Str("PN")>>), Empty, Empty, TRUE), edition |-> "Paul Newman"],
    [pattern |-> Pattern(Str("Hulk"), Empty, Empty, TRUE), edition |-> "Hulk"],
    [pattern |-> Pattern(Str("Pepsi"), Empty, Empty, TRUE), edition |-> "Pepsi"],
    [pattern |-> Pattern(Alt(<<Str("Coke"), Str("Coca Cola")>>), Empty, Empty, TRUE), edition |-> "Coke"],
    [pattern |-> Pattern(Str("Batman"), Empty, Empty, TRUE), edition |-> "Batman"],
    [pattern |-> Pattern(Str("Kermit"), Empty, Empty, TRUE), edition |-> "Kermit"],
    [pattern |-> Pattern(Str("Starbucks"), Empty, Empty, TRUE), edition |-> "Starbucks"],
    [pattern |-> Pattern(Str("Smurf"), Empty, Empty, TRUE), edition |-> "Smurf"]
>>

\* WhatsAppWatchParser.material_patterns
material_patterns == <<
    [pattern |-> Pattern(Alt(<<Cat(<<Str("Yellow"), Plus(Chr(SPACE)), Str("Gold")>>), Str("YG"), Cat(<<Str("18K"), Star(Chr(SPACE)), Str("Y")>>)>>), Empty, Empty, TRUE), material |-> "Yellow Gold"],
    [pattern |-> Pattern(Alt(<<Cat(<<Str("White"), Plus(Chr(SPACE)), Str("Gold")>>), Str("WG"), Cat(<<Str("18K"), Star(Chr(SPACE)), Str("W")>>)>>), Empty, Empty, TRUE), material |-> "White Gold"],
    [pattern |-> Pattern(Alt(<<Cat(<<Str("Rose"), Plus(Chr(SPACE)), Str("Gold")>>), Str("RG"), Cat(<<Str("18K"), Star(Chr(SPACE)), Str("R")>>)>>), Empty, Empty, TRUE), material |-> "Rose Gold"],
    [pattern |-> Pattern(Alt(<<Cat(<<Str("Two"), Star(Chr(SPACE \cup {"-"})), Str("Tone")>>), Str("TT"), Cat(<<Str("Bi"), Star(Chr(SPACE \cup {"-"})), Str("metal")>>)>>), Empty, Empty, TRUE), material |-> "Two-Tone"],
    [pattern |-> Pattern(Alt(<<Str("Steel"), Str("SS"), Str("Stainless")>>), Empty, Empty, TRUE), material |-> "Steel"],
    [pattern |-> Pattern(Alt(<<Str("Platinum"), Str("PT"), Str("950")>>), Empty, Empty, TRUE), material |-> "Platinum"],
    [pattern |-> Pattern(Alt(<<Str("Titanium"), Str("Ti")>>), Empty, Empty, TRUE), material |-> "Titanium"]
>>

\* WhatsAppWatchParser.dial_patterns
dial_patterns == <<
    [pattern |-> Pattern(Alt(<<Cat(<<Str("Black"), Plus(Chr(SPACE)), Str("dial")>>), Cat(<<Str("Black"), Plus(Chr(SPACE)), Str("face")>>)>>), Empty, Empty, TRUE), dial |-> "Black"],
    [pattern |-> Pattern(Alt(<<Cat(<<Str("Blue"), Plus(Chr(SPACE)), Str("dial")>>), Cat(<<Str("Blue"), Plus(Chr(SPACE)), Str("face")>>)>>), Empty, Empty, TRUE), dial |-> "Blue"],
    [pattern |-> Pattern(Alt(<<Cat(<<Str("White"), Plus(Chr(SPACE)), Str("dial")>>), Cat(<<Str("White"), Plus(Chr(SPACE)), Str("face")>>)>>), Empty, Empty, TRUE), dial |-> "White"],
    [pattern |-> Pattern(Alt(<<Cat(<<Str("Green"), Plus(Chr(SPACE)), Str("dial")>>), Cat(<<Str("Green"), Plus(Chr(SPACE)), Str("face")>>)>>), Empty, Empty, TRUE), dial |-> "Green"],
    [pattern |-> Pattern(Cat(<<Str("Champagne"), Plus(Chr(SPACE)), Str("dial")>>), Empty, Empty, TRUE), dial |-> "Champagne"],
    [pattern |-> Pattern(Cat(<<Str("Silver"), Plus(Chr(SPACE)), Str("dial")>>), Empty, Empty, TRUE), dial |-> "Silver"],
    [pattern |-> Pattern(Cat(<<Str("Salmon"), Plus(Chr(SPACE)), Str("dial")>>), Empty, Empty, TRUE), dial |-> "Salmon"],
    [pattern |-> Pattern(Cat(<<Str("Meteorite"), Plus(Chr(SPACE)), Str("dial")>>), Empty, Empty, TRUE), dial |-> "Meteorite"],
    [pattern |-> Pattern(Alt(<<Cat(<<Str("Mother"), Plus(Chr(SPACE)), Str("of"), Plus(Chr(SPACE)), Str("pearl")>>), Str("MOP")>>), Empty, Empty, TRUE), dial |-> "Mother of Pearl"]
>>

\* EnhancedWhatsAppProcessor.price_patterns
enhanced_price_patterns == <<
    Pattern(Str("$"), Cat(<<Plus(Chr(DIGIT \cup {","})), Opt(Cat(<<Str("."), Rep(Chr(DIGIT), 2, 2)>>))>>), Empty, TRUE),
    Pattern(Empty, Cat(<<Plus(Chr(DIGIT \cup {","})), Opt(Cat(<<Str("."), Rep(Chr(DIGIT), 2, 2)>>))>>), Cat(<<Star(Chr(SPACE)), Str("USD")>>), TRUE),
    Pattern(Str("$"), Plus(Chr(DIGIT)), Str("K"), TRUE),
    Pattern(Empty, Plus(Chr(DIGIT)), Cat(<<Str("K"), Star(Chr(SPACE)), Str("+")>>), TRUE),
    Pattern(Str("$"), Plus(Chr(DIGIT \cup {","})), Cat(<<Star(Chr(SPACE)), Str("+")>>), TRUE)
>>

\* BobsWatchesScraper.detect_watch_variations: variations (in declaration order)
variations == <<
    [key |-> "tiffany", keywords |-> <<"tiffany", "tiffany & co", "tiffany dial">>,
     dial_type |-> "Tiffany", special_edition |-> "Tiffany & Co", suffix |-> "tiffany"],
    [key |-> "tropical", keywords |-> <<"tropical", "tropical dial", "brown dial">>,
     dial_type |-> "Tropical", special_edition |-> "Tropical Dial", suffix |-> "tropical"],
    [key |-> "spider", keywords |-> <<"spider", "spider dial", "cracked dial">>,
     dial_type |-> "Spider", special_edition |-> "Spider Dial", suffix |-> "spider"],
    [key |-> "sigma", keywords |-> <<"sigma", "sigma dial">>,
     dial_type |-> "Sigma", special_edition |-> "Sigma Dial", suffix |-> "sigma"],
    [key |-> "comex", keywords |-> <<"comex", "comex dial">>,
     dial_type |-> "COMEX", special_edition |-> "COMEX", suffix |-> "comex"],
    [key |-> "dominos", keywords |-> <<"domino", "domino's", "dominos">>,
     dial_type |-> "Dominos", special_edition |-> "Domino's Pizza", suffix |-> "dominos"],
    [key |-> "military", keywords |-> <<"military", "mil-sub", "milsub">>,
     dial_type |-> "Military", special_edition |-> "Military Submariner", suffix |-> "military"],
    [key |-> "kermit", keywords |-> <<"kermit", "green bezel">>,
     dial_type |-> "Kermit", special_edition |-> "Kermit (Green Bezel)", suffix |-> "kermit"],
    [key |-> "hulk", keywords |-> <<"hulk", "green dial">>,
     dial_type |-> "Hulk", special_edition |-> "Hulk (Green Dial)", suffix |-> "hulk"],
    [key |-> "yellow_gold", keywords |-> <<"yellow gold", "gold", "18k gold", "yellow-gold">>,
     dial_type |-> "Gold", special_edition |-> "Yellow Gold", suffix |-> "gold"],
    [key |-> "two_tone", keywords |-> <<"two tone", "two-tone", "steel gold", "steel-gold">>,
     dial_type |-> "Two-Tone", special_edition |-> "Steel & Gold", suffix |-> "twotone"],
    [key |-> "blue_dial", keywords |-> <<"blue dial", "blue-dial", "blue face">>,
     dial_type |-> "Blue", special_edition |-> "Blue Dial", suffix |-> "blue"],
    [key |-> "white_dial", keywords |-> <<"white dial", "white-dial", "white face", "white submariner", "white-submariner">>,
     dial_type |-> "White", special_edition |-> "White Dial", suffix |-> "white"],
    [key |-> "red_writing", keywords |-> <<"red writing", "red-writing", "red text", "red submariner">>,
     dial_type |-> "Red Writing", special_edition |-> "Red Writing", suffix |-> "red"],
    [key |-> "silver_dial", keywords |-> <<"silver dial", "silver-dial", "silver face">>,
     dial_type |-> "Silver", special_edition |-> "Silver Dial", suffix |-> "silver"],
    [key |-> "blue_bezel", keywords |-> <<"blue bezel", "blue-bezel">>,
     dial_type |-> "Blue Bezel", special_edition |-> "Blue Bezel", suffix |-> "bluebezel"],
    [key |-> "green_bezel", keywords |-> <<"green bezel", "green-bezel">>,
     dial_type |-> "Green Bezel", special_edition |-> "Green Bezel", suffix |-> "greenbezel"],
    [key |-> "black_bezel", keywords |-> <<"black bezel", "black-bezel">>,
     dial_type |-> "Black Bezel", special_edition |-> "Black Bezel", suffix |-> "blackbezel"],
    [key |-> "slate_serti", keywords |-> <<"slate serti", "slate-serti", "serti">>,
     dial_type |-> "Serti", special_edition |-> "Slate Serti", suffix |-> "serti"],
    [key |-> "champagne_dial", keywords |-> <<"champagne dial", "champagne-dial", "champagne face">>,
     dial_type |-> "Champagne", special_edition |-> "Champagne Dial", suffix |-> "champagne"]
>>


\* ------------------------------------------------------------------------
\* Variation classifier: BobsWatchesScraper.detect_watch_variations
\* ------------------------------------------------------------------------
\* dict.get(key, default)
Get(d, key, default) == IF d[key] = Absent THEN default ELSE d[key]

\* search_text = f"{title} {url}".lower()
SearchText(listing) ==
    Lower(Lower(Get(listing, "title", "")) \o " " \o Lower(Get(listing, "url", "")))

\* any(keyword in search_text for keyword in var_info['keywords'])
AnyKeyword(search_text, var_info) ==
    \E j \in 1..Len(var_info.keywords) : Contains(search_text, var_info.keywords[j])

\* The loop without its break: the last matching rule overrides the earlier ones
ScanVariations_NoBreak(search_text, k) ==
    LET hits == {r \in k..Len(variations) : AnyKeyword(search_text, variations[r])}
    IN  IF hits = {} THEN 0 ELSE CHOOSE r \in hits : \A h \in hits : h <= r

\* A scoring scan: the rule with the longest keyword found wins
ScanVariations_LongestKeyword(search_text, k) ==
    LET Score(r) ==
            LET ls == {Len(variations[r].keywords[j]) :
                          j \in {i \in 1..Len(variations[r].keywords) :
                                    Contains(search_text, variations[r].keywords[i])}}
            IN  IF ls = {} THEN 0 ELSE CHOOSE l \in ls : \A m \in ls : m <= l
        hits == {r \in k..Len(variations) : Score(r) > 0}
    IN  IF hits = {} THEN 0
        ELSE CHOOSE r \in hits :
                \A h \in hits : Score(h) < Score(r) \/ (Score(h) = Score(r) /\ r <= h)

\* for var_key, var_info in variations.items(): if any(...): ...; break
\* The index of the rule the loop stops at; 0 when it runs to the end.
RECURSIVE ScanVariations(_, _)
ScanVariations(search_text, k) ==
    IF k > Len(variations) THEN 0
    ELSE IF AnyKeyword(search_text, variations[k]) THEN k
    ELSE ScanVariations(search_text, k + 1)

\* The key built from the listing's dial_type field instead of the suffix
detect_watch_variations_KeyFromDialType(listing) ==
    LET reference == Get(listing, "reference_number", "unknown")
        r == ScanVariations(SearchText(listing), 1)
        dial_type == IF r = 0 THEN None ELSE variations[r].dial_type
    IN  [listing EXCEPT
            !.dial_type = dial_type,
            !.special_edition = IF r = 0 THEN None ELSE variations[r].special_edition,
            !.comparison_key = reference \o "-" \o Lower(dial_type)]

\* The classifier reading the reference back from the key of an earlier call
detect_watch_variations_ReferenceFromKey(listing) ==
    LET reference == Get(listing, "comparison_key", Get(listing, "reference_number", "unknown"))
        r == ScanVariations(SearchText(listing), 1)
    IN  [listing EXCEPT
            !.dial_type = IF r = 0 THEN None ELSE variations[r].dial_type,
            !.special_edition = IF r = 0 THEN None ELSE variations[r].special_edition,
            !.comparison_key = reference \o "-"
                                  \o (IF r = 0 THEN "standard" ELSE variations[r].suffix)]

\* The classifier keeping the suffix of the named historical rules only
detect_watch_variations_NamedOnly(listing) ==
    LET reference == Get(listing, "reference_number", "unknown")
        r == ScanVariations(SearchText(listing), 1)
    IN  [listing EXCEPT
            !.dial_type = IF r = 0 THEN None ELSE variations[r].dial_type,
            !.special_edition = IF r = 0 THEN None ELSE variations[r].special_edition,
            !.comparison_key = reference \o "-"
                                  \o (IF r = 0 \/ r > 9 THEN "standard"
                                      ELSE variations[r].suffix)]

\* The classifier without the initialisation of the two variation fields
detect_watch_variations_KeepsFields(listing) ==
    LET r == ScanVariations(SearchText(listing), 1)
    IN  [listing EXCEPT
            !.dial_type = IF r = 0 THEN @ ELSE variations[r].dial_type,
            !.special_edition = IF r = 0 THEN @ ELSE variations[r].special_edition,
            !.comparison_key = Get(listing, "reference_number", "unknown") \o "-"
                                  \o (IF r = 0 THEN "standard" ELSE variations[r].suffix)]

detect_watch_variations(listing) ==
    LET reference == Get(listing, "reference_number", "unknown")
        search_text == SearchText(listing)
        r == ScanVariations(search_text, 1)
        detected_suffix == IF r = 0 THEN "standard" ELSE variations[r].suffix
    IN  [listing EXCEPT
            !.dial_type = IF r = 0 THEN None ELSE variations[r].dial_type,
            !.special_edition = IF r = 0 THEN None ELSE variations[r].special_edition,
            !.comparison_key = reference \o "-" \o detected_suffix]

\* ------------------------------------------------------------------------
\* Free-text extractor: WhatsAppWatchParser
\* ------------------------------------------------------------------------
DigitVal(c) == CHOOSE n \in 0..9 : Ch("0123456789", n + 1) = c

IsDigits(s) == \A i \in 1..Len(s) : Ch(s, i) \in DIGIT

RECURSIVE DigitsValue(_)
DigitsValue(s) ==
    IF s = "" THEN 0
    ELSE DigitsValue(SubSeq(s, 1, Len(s) - 1)) * 10 + DigitVal(Ch(s, Len(s)))

\* float(s) raises ValueError unless s is a number; s has digits and dots only
IsFloat(s) ==
    LET dots == {i \in 1..Len(s) : Ch(s, i) = "."}
    IN  /\ Cardinality(dots) <= 1
        /\ \A i \in 1..Len(s) : Ch(s, i) \in DIGIT \cup {"."}
        /\ \E i \in 1..Len(s) : Ch(s, i) \in DIGIT

\* float(s).  A float is kept as its number of hundredths (the patterns admit
\* exactly two decimals), so 42000.0 is 4200000.
ParseFloat(s) ==
    LET dots == {i \in 1..Len(s) : Ch(s, i) = "."}
        d == IF dots = {} THEN Len(s) + 1 ELSE CHOOSE i \in dots : TRUE
        ip == SubSeq(s, 1, d - 1)
        fp == SubSeq(s, d + 1, Len(s))
    IN  DigitsValue(ip) * 100 + DigitsValue(SubSeq(fp \o "00", 1, 2))

\* The float of a whole number of dollars
Dollars(n) == n * 100

\* str.replace(old, new) for a one-character old
RECURSIVE Replace(_, _, _)
Replace(s, old, new) ==
    IF s = "" THEN ""
    ELSE (IF Head(s) = old THEN new ELSE Head(s)) \o Replace(Tail(s), old, new)

\* match.replace(',', '').replace('K', '000')
CleanPrice(match) == Replace(Replace(match, ",", ""), "K", "000")

\* The band without its ceiling
InBand_NoCeiling(price) == Dollars(1000) <= price

\* Reasonable price range for luxury watches
InBand(price) == Dollars(1000) <= price /\ price <= Dollars(2000000)

\* price = float(price_str); if 1000 <= price <= 2000000: prices.append(price)
\* What one match adds to the list: nothing after a ValueError or out of band
PriceOf(price_str) ==
    IF IsFloat(price_str) /\ InBand(ParseFloat(price_str))
    THEN <<ParseFloat(price_str)>> ELSE <<>>

\* for match in matches: ...
RECURSIVE PricesOfMatches(_, _)
PricesOfMatches(matches, k) ==
    IF k > Len(matches) THEN <<>>
    ELSE PriceOf(CleanPrice(matches[k])) \o PricesOfMatches(matches, k + 1)

\* for pattern in patterns: matches = re.findall(pattern, text, re.IGNORECASE)
\* The list `prices` before duplicates are removed: the order of discovery.
RECURSIVE PricesOfPatterns(_, _, _)
PricesOfPatterns(patterns, text, k) ==
    IF k > Len(patterns) THEN <<>>
    ELSE PricesOfMatches(FindAll(patterns[k], text), 1)
            \o PricesOfPatterns(patterns, text, k + 1)

DiscoveredPrices(text) == PricesOfPatterns(price_patterns, text, 1)

\* list(set(prices)) as CPython builds it: the floats are inserted one by one
\* into an open-addressing table of 8 slots (32 after the fifth element) at
\* hash & mask, with up to 9 linear probes when they fit and the perturbed
\* probe i*5 + 1 + (perturb >> 5) otherwise; the list is the table in slot
\* order.  hash(float) of a whole number is that number.  -1 is a free slot.
PyHash(price) == price \div 100

RECURSIVE SetLookup(_, _, _, _, _)
SetLookup(slots, mask, key, i, perturb) ==
    LET probes == IF i + 9 <= mask THEN 9 ELSE 0
        hit == {j \in i..(i + probes) : slots[j] = -1 \/ slots[j] = key}
        p == perturb \div 32
    IN  IF hit # {} THEN CHOOSE j \in hit : \A h \in hit : j <= h
        ELSE SetLookup(slots, mask, key, (i * 5 + 1 + p) % (mask + 1), p)

SetInsert(slots, mask, key) ==
    [slots EXCEPT ![SetLookup(slots, mask, key, PyHash(key) % (mask + 1), PyHash(key))] = key]

RECURSIVE SetInsertAll(_, _, _, _)
SetInsertAll(slots, mask, keys, k) ==
    IF k > Len(keys) THEN slots
    ELSE SetInsertAll(SetInsert(slots, mask, keys[k]), mask, keys, k + 1)

SlotList(slots, mask) ==
    SelectSeq([i \in 1..(mask + 1) |-> slots[i - 1]], LAMBDA v : v # -1)

\* set_table_resize: the keys are re-inserted in slot order into 32 slots
SetResize(slots) ==
    SetInsertAll([i \in 0..31 |-> -1], 31, SlotList(slots, 7), 1)

RECURSIVE SetAddAll(_, _, _, _)
SetAddAll(slots, mask, keys, k) ==
    IF k > Len(keys) THEN [slots |-> slots, mask |-> mask]
    ELSE LET s == SetInsert(slots, mask, keys[k])
             fill == Len(SlotList(s, mask))
         IN  IF mask = 7 /\ fill * 5 >= mask * 3
             THEN SetAddAll(SetResize(s), 31, keys, k + 1)
             ELSE SetAddAll(s, mask, keys, k + 1)

ListOfSet(keys) ==
    LET so == SetAddAll([i \in 0..7 |-> -1], 7, keys, 1)
    IN  SlotList(so.slots, so.mask)

extract_prices(text) == ListOfSet(DiscoveredPrices(text))

\* for pattern, label in patterns: if re.search(pattern, context): ...; break
\* The index of the first pattern found in the context; 0 when there is none.
RECURSIVE FirstFound(_, _, _)
FirstFound(patterns, context, k) ==
    IF k > Len(patterns) THEN 0
    ELSE IF Search(patterns[k].pattern, context).found THEN k
    ELSE FirstFound(patterns, context, k + 1)

Max(a, b) == IF a >= b THEN a ELSE b
Min(a, b) == IF a <= b THEN a ELSE b

\* context = text[max(0, match.start() - 50) : min(len(text), match.end() + 50)]
\* as the pair of 1-based positions <<first character, last character>>
ContextRadius == 50

ContextSpan(text, m) ==
    <<Max(0, (m.start - 1) - ContextRadius) + 1,
      Min(Len(text), (m.end - 1) + ContextRadius)>>

\* The whole message as every watch's context
Context_WholeText(text, m) == text

Context(text, m) == SubSeq(text, ContextSpan(text, m)[1], ContextSpan(text, m)[2])

\* The WatchInfo of one match, given the indexes (0: none) of the special
\* edition, material and dial patterns found in its context.  Confidence is
\* kept in tenths; match_start and match_end record where the match was found.
WatchInfo(m, brand, model, se, mat, dial) ==
        [brand |-> brand, model |-> model, reference |-> m.g1,
         special_edition |-> IF se = 0 THEN None ELSE special_edition_patterns[se].edition,
         material |-> IF mat = 0 THEN None ELSE material_patterns[mat].material,
         dial_color |-> IF dial = 0 THEN None ELSE dial_patterns[dial].dial,
         confidence |-> (IF model # None THEN 7 ELSE 5)
                          + (IF se # 0 THEN 2 ELSE 0)
                          + (IF mat # 0 THEN 1 ELSE 0)
                          + (IF dial # 0 THEN 1 ELSE 0),
         match_start |-> m.start, match_end |-> m.end]

WatchOfMatch(text, m, brand, model) ==
    WatchInfo(m, brand, model,
              FirstFound(special_edition_patterns, Context(text, m), 1),
              FirstFound(material_patterns, Context(text, m), 1),
              FirstFound(dial_patterns, Context(text, m), 1))

WatchesOfMatches(text, ms, brand, model) ==
    [k \in 1..Len(ms) |-> WatchOfMatch(text, ms[k], brand, model)]

RECURSIVE WatchesOfPatterns(_, _)
WatchesOfPatterns(text, k) ==
    IF k > Len(rolex_patterns) THEN <<>>
    ELSE WatchesOfMatches(text, FindIter(rolex_patterns[k].pattern, text),
                          rolex_patterns[k].brand, rolex_patterns[k].model)
            \o WatchesOfPatterns(text, k + 1)

extract_watch_details(text) == WatchesOfPatterns(text, 1)

\* max(watches, key=lambda w: w.confidence): the first of the maximal ones
BestWatch(ws) ==
    ws[CHOOSE i \in 1..Len(ws) :
          /\ \A j \in 1..Len(ws) : ws[j].confidence <= ws[i].confidence
          /\ \A j \in 1..(i - 1) : ws[j].confidence < ws[i].confidence]

\* The matching without its guard on the prices: a watch is emitted unpriced
match_price_to_watch_Unpriced(ws, ps) ==
    IF ws = <<>> THEN <<>>
    ELSE IF ps = <<>> THEN << <<BestWatch(ws), 0>> >>
    ELSE IF Len(ws) = 1 /\ Len(ps) = 1 THEN << <<ws[1], ps[1]>> >>
    ELSE IF Len(ws) = Len(ps) THEN [i \in 1..Len(ws) |-> <<ws[i], ps[i]>>]
    ELSE << <<BestWatch(ws), ps[1]>> >>

match_price_to_watch(ws, ps) ==
    IF ws = <<>> \/ ps = <<>> THEN <<>>
    ELSE IF Len(ws) = 1 /\ Len(ps) = 1 THEN << <<ws[1], ps[1]>> >>
    ELSE IF Len(ws) = Len(ps) THEN [i \in 1..Len(ws) |-> <<ws[i], ps[i]>>]
    ELSE << <<BestWatch(ws), ps[1]>> >>

\* '-'.join(parts)
RECURSIVE Join(_, _)
Join(sep, parts) ==
    IF parts = <<>> THEN ""
    ELSE IF Len(parts) = 1 THEN parts[1]
    ELSE parts[1] \o sep \o Join(sep, Tail(parts))

generate_comparison_key(watch_info) ==
    IF watch_info.reference = None \/ watch_info.reference = "" THEN None
    ELSE LET se == Lower(watch_info.special_edition)
             se_part ==
                IF watch_info.special_edition = None THEN <<>>
                ELSE IF se = "tiffany & co" THEN <<"tiffany">>
                ELSE IF se = "tropical" THEN <<"tropical">>
                ELSE IF se = "spider" THEN <<"spider">>
                ELSE IF se = "comex" THEN <<"comex">>
                ELSE IF se = "domino's" THEN <<"dominos">>
                ELSE IF se = "hulk" THEN <<"hulk">>
                ELSE IF se = "pepsi" THEN <<"pepsi">>
                ELSE IF se = "batman" THEN <<"batman">>
                ELSE IF se = "kermit" THEN <<"kermit">>
                ELSE <<>>
             mat == Lower(watch_info.material)
             mat_part ==
                IF watch_info.material = None THEN <<>>
                ELSE IF Contains(mat, "gold") THEN <<"gold">>
                ELSE IF mat = "two-tone" THEN <<"twotone">>
                ELSE IF mat = "platinum" THEN <<"platinum">>
                ELSE <<>>
             dial_lower == Lower(watch_info.dial_color)
             dial_part ==
                IF watch_info.dial_color = None THEN <<>>
                ELSE IF dial_lower \in {"blue", "green", "black", "white", "champagne"}
                     THEN <<dial_lower \o "dial">>
                ELSE <<>>
             key_parts == <<watch_info.reference>> \o se_part \o mat_part \o dial_part
         IN  Lower(Join("-", IF Len(key_parts) = 1
                             THEN key_parts \o <<"standard">> ELSE key_parts))

\* str.strip()
RECURSIVE LStrip(_), RStrip(_)
LStrip(s) == IF s # "" /\ Head(s) \in SPACE THEN LStrip(Tail(s)) ELSE s
RStrip(s) ==
    IF s # "" /\ Ch(s, Len(s)) \in SPACE THEN RStrip(SubSeq(s, 1, Len(s) - 1)) ELSE s
Strip(s) == RStrip(LStrip(s))

\* if not message_text or len(message_text.strip()) < 10: return []
TooShort(message_text) == message_text = "" \/ Len(Strip(message_text)) < 10

\* The ParsedListing with its confidence cut off at 1.0
ListingOfPair_Clamped(pair, message_text) ==
    [watch_info |-> pair[1], price_usd |-> pair[2], raw_message |-> message_text,
     confidence |-> Min(10, pair[1].confidence
                              + (IF Dollars(5000) <= pair[2] /\ pair[2] <= Dollars(500000)
                                 THEN 1 ELSE 0)),
     source_type |-> "wholesale", communication_type |-> "whatsapp_group"]

\* The ParsedListing built for one matched pair
ListingOfPair(pair, message_text) ==
    [watch_info |-> pair[1], price_usd |-> pair[2], raw_message |-> message_text,
     confidence |-> pair[1].confidence
                      + (IF Dollars(5000) <= pair[2] /\ pair[2] <= Dollars(500000)
                         THEN 1 ELSE 0),
     source_type |-> "wholesale", communication_type |-> "whatsapp_group"]

\* matched_pairs = self.match_price_to_watch(watches, prices)
\* for watch_info, price in matched_pairs: ... listings.append(listing)
ListingsOf(ws, ps, message_text) ==
    LET matched_pairs == match_price_to_watch(ws, ps)
    IN  [k \in 1..Len(matched_pairs) |-> ListingOfPair(matched_pairs[k], message_text)]

parse_message(message_text) ==
    IF TooShort(message_text) THEN <<>>
    ELSE ListingsOf(extract_watch_details(message_text), extract_prices(message_text),
                    message_text)

\* price = float(price_str) raises ValueError at some of the matches
AnyNotFloat(matches) ==
    \E j \in 1..Len(matches) : ~IsFloat(CleanPrice(matches[j]))

\* ... at some match of some pattern
ValueErrorIn(patterns, text) ==
    \E k \in 1..Len(patterns) : AnyNotFloat(FindAll(patterns[k], text))

\* The exceptions raised in the body of the try of extract_prices
RaisedInPriceLoop(text) ==
    IF ValueErrorIn(price_patterns, text) THEN {"ValueError"} ELSE {}

\* except (ValueError, TypeError): continue
extract_prices_raises(text) == RaisedInPriceLoop(text) \ {"ValueError", "TypeError"}

\* parse_message with neither handler
parse_message_raises_Unhandled(message_text) ==
    IF TooShort(message_text) THEN {} ELSE RaisedInPriceLoop(message_text)

\* except Exception as e: logger.error(...) -- the exceptions of the try body
\* that are no Exception leave parse_message
parse_message_raises(message_text) ==
    IF TooShort(message_text) THEN {}
    ELSE {e \in extract_prices_raises(message_text) : e \notin {"ValueError", "TypeError", "Exception"}}

\* ------------------------------------------------------------------------
\* WhatsAppWatchParser.parse_whatsapp_export
\* ------------------------------------------------------------------------
\* message_pattern: timestamp - sender: (matched case-sensitively)
message_pattern ==
    Pattern(Cat(<<Rep(Chr(DIGIT), 1, 2), Str("/"), Rep(Chr(DIGIT), 1, 2), Str("/"), Rep(Chr(DIGIT), 2, 4), Str(","), Chr(SPACE), Rep(Chr(DIGIT), 1, 2), Str(":"), Rep(Chr(DIGIT), 2, 2), Chr(SPACE), Chr({"A", "P"}), Str("M"), Chr(SPACE), Str("-"), Chr(SPACE), Plus(NotChr({":"})), Str(":"), Chr(SPACE)>>), Empty, Empty, FALSE)

\* re.split(p, t) for a pattern without groups: the pieces of t between the
\* matches ms, the first one from position `from`
RECURSIVE SplitAt(_, _, _, _)
SplitAt(t, ms, k, from) ==
    IF k > Len(ms) THEN <<SubSeq(t, from, Len(t))>>
    ELSE <<SubSeq(t, from, ms[k].start - 1)>> \o SplitAt(t, ms, k + 1, ms[k].end)

Split(p, t) == SplitAt(t, FindIter(p, t), 1, 1)

\* for message in messages: if message.strip(): all_listings.extend(...)
RECURSIVE ListingsOfMessages(_, _)
ListingsOfMessages(messages, k) ==
    IF k > Len(messages) THEN <<>>
    ELSE (IF Strip(messages[k]) # "" THEN parse_message(Strip(messages[k])) ELSE <<>>)
            \o ListingsOfMessages(messages, k + 1)

parse_whatsapp_export(chat_export_text) ==
    ListingsOfMessages(Split(message_pattern, chat_export_text), 1)

\* ------------------------------------------------------------------------
\* EnhancedWhatsAppProcessor._extract_price
\* ------------------------------------------------------------------------
\* return None: a price is a number, so None is kept as -1
NoPrice == -1

\* return price at the first price in the band; the next pattern otherwise
FirstOrElse(ps, other) == IF ps # <<>> THEN ps[1] ELSE other

RECURSIVE FirstPriceOfPatterns(_, _, _)
FirstPriceOfPatterns(patterns, text, k) ==
    IF k > Len(patterns) THEN NoPrice
    ELSE FirstOrElse(PricesOfMatches(FindAll(patterns[k], text), 1),
                     FirstPriceOfPatterns(patterns, text, k + 1))

_extract_price(text) == FirstPriceOfPatterns(enhanced_price_patterns, text, 1)

\* ------------------------------------------------------------------------
\* EnhancedWhatsAppProcessor.extract_watch_listing
\* ------------------------------------------------------------------------
\* (\d{n}[A-Z]*)\s*(?:,|\s|$)
BareReference(n) ==
    Pattern(Empty, Cat(<<Rep(Chr(DIGIT), n, n), Star(Chr(UPPER))>>),
            Cat(<<Star(Chr(SPACE)), Alt(<<Str(","), Chr(SPACE), AtEnd>>)>>), TRUE)

\* (?:name|...).*?(\d{4,6}[A-Z]*)
ModelThenReference(names) ==
    Pattern(Cat(<<Alt(names), LazyRep(AnyChar, 0, -1)>>),
            Cat(<<Rep(Chr(DIGIT), 4, 6), Star(Chr(UPPER))>>), Empty, TRUE)

\* EnhancedWhatsAppProcessor.enhanced_rolex_patterns; confidence in tenths
enhanced_rolex_patterns == <<
    [pattern |-> BareReference(6), brand |-> "Rolex", model |-> None, confidence |-> 8],
    [pattern |-> BareReference(5), brand |-> "Rolex", model |-> None, confidence |-> 7],
    [pattern |-> BareReference(4), brand |-> "Rolex", model |-> None, confidence |-> 6],
    [pattern |-> ModelThenReference(<<Str("Sub"), Str("Submariner")>>),
     brand |-> "Rolex", model |-> "Submariner", confidence |-> 9],
    [pattern |-> ModelThenReference(<<Str("GMT"), Str("GMT-Master")>>),
     brand |-> "Rolex", model |-> "GMT-Master", confidence |-> 9],
    [pattern |-> ModelThenReference(<<Str("Daytona")>>),
     brand |-> "Rolex", model |-> "Daytona", confidence |-> 9],
    [pattern |-> ModelThenReference(<<Str("Explorer")>>),
     brand |-> "Rolex", model |-> "Explorer", confidence |-> 9],
    [pattern |-> ModelThenReference(<<Str("Day-Date"), Str("DD")>>),
     brand |-> "Rolex", model |-> "Day-Date", confidence |-> 9],
    [pattern |-> ModelThenReference(<<Str("Yacht-Master"), Str("YM")>>),
     brand |-> "Rolex", model |-> "Yacht-Master", confidence |-> 9],
    [pattern |-> ModelThenReference(<<Str("Milgauss")>>),
     brand |-> "Rolex", model |-> "Milgauss", confidence |-> 9],
    [pattern |-> ModelThenReference(<<Str("Sea-Dweller")>>),
     brand |-> "Rolex", model |-> "Sea-Dweller", confidence |-> 9],
    [pattern |-> ModelThenReference(<<Str("Air-King")>>),
     brand |-> "Rolex", model |-> "Air-King", confidence |-> 9],
    [pattern |-> Pattern(Empty, Rep(Chr(DIGIT), 4, 4),
                         Cat(<<Str(","), Star(Chr(SPACE)), Chr(UPPER), Star(Chr(SPACE)),
                               Str("ser")>>), TRUE),
     brand |-> "Rolex", model |-> None, confidence |-> 9]
>>

\* EnhancedWhatsAppProcessor.other_brand_patterns
other_brand_patterns == <<
    [pattern |-> Pattern(Cat(<<Str("Omega"), LazyRep(AnyChar, 0, -1)>>),
                         Cat(<<Rep(Chr(DIGIT), 3, 3), Str("."), Rep(Chr(DIGIT), 2, 2), Str("."),
                               Rep(Chr(DIGIT), 2, 2), Str("."), Rep(Chr(DIGIT), 2, 2), Str("."),
                               Rep(Chr(DIGIT), 2, 2), Str("."), Rep(Chr(DIGIT), 3, 3)>>),
                         Empty, TRUE),
     brand |-> "Omega", model |-> None, confidence |-> 9],
    [pattern |-> Pattern(Cat(<<Str("Cartier"), LazyRep(AnyChar, 0, -1)>>),
                         Rep(Chr(DIGIT), 4, 4), Empty, TRUE),
     brand |-> "Cartier", model |-> None, confidence |-> 8],
    [pattern |-> Pattern(Empty, Cat(<<Str("RM"), Rep(Chr(DIGIT), 2, 2),
                                      Star(Chr(DIGIT \cup {"-"}))>>), Empty, TRUE),
     brand |-> "Richard Mille", model |-> None, confidence |-> 9],
    [pattern |-> Pattern(Cat(<<Str("Patek"), LazyRep(AnyChar, 0, -1)>>),
                         Rep(Chr(DIGIT), 4, 4), Empty, TRUE),
     brand |-> "Patek Philippe", model |-> None, confidence |-> 9]
>>

\* \bword\b
Word(s) == Pattern(Cat(<<WordB, Str(s), WordB>>), Empty, Empty, TRUE)

\* EnhancedWhatsAppProcessor.condition_patterns
condition_patterns == <<
    [pattern |-> Word("naked"), condition |-> "naked"],
    [pattern |-> Word("mint"), condition |-> "mint"],
    [pattern |-> Word("excellent"), condition |-> "excellent"],
    [pattern |-> Word("unpolished"), condition |-> "unpolished"],
    [pattern |-> Word("razor sharp"), condition |-> "razor sharp"],
    [pattern |-> Word("no holes"), condition |-> "no holes"],
    [pattern |-> Word("brand new"), condition |-> "brand new"],
    [pattern |-> Word("NTQ"), condition |-> "new to quality"],
    [pattern |-> Word("complete"), condition |-> "complete"],
    [pattern |-> Word("full set"), condition |-> "full set"]
>>

\* EnhancedWhatsAppProcessor.bracelet_patterns; the last one answers with its
\* group and ' links'
bracelet_patterns == <<
    [pattern |-> Word("full links"), condition |-> "full links"],
    [pattern |-> Word("no stretch"), condition |-> "no stretch"],
    [pattern |-> Word("solid oyster"), condition |-> "solid oyster"],
    [pattern |-> Word("fully linked"), condition |-> "fully linked"],
    [pattern |-> Pattern(WordB, Plus(Chr(DIGIT)),
                         Cat(<<Star(Chr(SPACE)), Str("links"), WordB>>), TRUE),
     condition |-> " links"]
>>

\* EnhancedWhatsAppProcessor.serial_patterns
serial_patterns == <<
    [pattern |-> Pattern(Empty, Chr(UPPER),
                         Cat(<<Star(Chr(SPACE)), Str("ser"), Opt(Str("."))>>), TRUE)],
    [pattern |-> Pattern(Cat(<<Str("ser"), Opt(Str(".")), Star(Chr(SPACE))>>),
                         Cat(<<Chr(UPPER), Plus(Chr(DIGIT))>>), Empty, TRUE)]
>>

\* return None
NoWatchListing == [found |-> FALSE]

\* _extract_condition: the condition of the first pattern found
ConditionAt(k) == IF k = 0 THEN None ELSE condition_patterns[k].condition

_extract_condition(text) == ConditionAt(FirstFound(condition_patterns, text, 1))

\* _extract_bracelet_condition
BraceletAt(text, k) ==
    IF k = 0 THEN None
    ELSE Search(bracelet_patterns[k].pattern, text).g1 \o bracelet_patterns[k].condition

_extract_bracelet_condition(text) == BraceletAt(text, FirstFound(bracelet_patterns, text, 1))

\* _extract_serial
SerialAt(text, k) ==
    IF k = 0 THEN None ELSE Search(serial_patterns[k].pattern, text).g1

_extract_serial(text) == SerialAt(text, FirstFound(serial_patterns, text, 1))

\* any(phrase in text for phrase in phrases)
AnyPhrase(text, phrases) == \E ph \in phrases : Contains(text, ph)

\* EnhancedWhatsAppProcessor._generate_comparison_key
_generate_comparison_key(l) ==
    IF l.reference_number = "" THEN None
    ELSE Join("-", <<Lower(l.reference_number)>>
                     \o (IF l.condition \in {"tropical", "spider"} THEN <<l.condition>> ELSE <<>>)
                     \o (IF l.complete_set THEN <<"fullset">> ELSE <<>>))

\* listing.comparison_key = self._generate_comparison_key(listing)
WithComparisonKey(l) == [l EXCEPT !.comparison_key = _generate_comparison_key(l)]

\* The listing of the watch found by a table entry, with the details filled in
\* from the message (text is the lower-cased message)
WatchListing(entry, reference_number, message_text, text) ==
    WithComparisonKey(
        [found |-> TRUE, brand |-> entry.brand, model |-> entry.model,
         reference_number |-> reference_number, confidence |-> entry.confidence,
         price_usd |-> _extract_price(message_text),
         includes_label |-> Contains(Lower(text), "+ label"),
         condition |-> _extract_condition(text),
         bracelet_condition |-> _extract_bracelet_condition(text),
         serial_number |-> _extract_serial(text),
         complete_set |-> AnyPhrase(text, {"complete set", "full set", "complete"}),
         has_box |-> Contains(text, "box") /\ ~Contains(text, "no box"),
         has_papers |-> AnyPhrase(text, {"papers", "card", "warranty"}),
         raw_message |-> message_text, comparison_key |-> None])

\* Try other brands if no Rolex found
OtherBrandListing(message_text, text, k) ==
    IF k = 0 THEN NoWatchListing
    ELSE WatchListing(other_brand_patterns[k],
                      Search(other_brand_patterns[k].pattern, text).g1, message_text, text)

\* Check Rolex patterns first: the first match of the first pattern that has one
RolexListing(message_text, text, k) ==
    IF k = 0
    THEN OtherBrandListing(message_text, text, FirstFound(other_brand_patterns, text, 1))
    ELSE WatchListing(enhanced_rolex_patterns[k],
                      Upper(Search(enhanced_rolex_patterns[k].pattern, text).g1),
                      message_text, text)

LowerCased(message_text, text) ==
    RolexListing(message_text, text, FirstFound(enhanced_rolex_patterns, text, 1))

extract_watch_listing(message_text) == LowerCased(message_text, Lower(message_text))

\* ------------------------------------------------------------------------
\* PricingEngineUpdater and PriceHistoryService
\* ------------------------------------------------------------------------
\* The session: the rows of watch_listings and of price_history as the open
\* transaction sees them.  A row keeps the columns the updater decides on.
EmptyDb == [watch_listings |-> <<>>, price_history |-> <<>>]

\* self.db.query(WatchListing).filter(WatchListing.source_id == source_id)
RowsOf(rows, source_id) == {i \in 1..Len(rows) : rows[i].source_id = source_id}

\* .first(): 0 stands for None
FirstRow(rows, source_id) ==
    IF RowsOf(rows, source_id) = {} THEN 0
    ELSE CHOOSE i \in RowsOf(rows, source_id) : \A j \in RowsOf(rows, source_id) : i <= j

\* A row of the session that the table cannot hold: price_usd is nullable=False
NullPrice(rows) == \E i \in 1..Len(rows) : rows[i].price_usd = NoPrice

\* self.db.flush() after db.add(row) raises IntegrityError: price_usd is
\* nullable=False and source_id is unique=True.  The flush writes every pending
\* change of the session, the rows updated earlier included
FlushRaises(rows, row) ==
    row.price_usd = NoPrice \/ RowsOf(rows, row.source_id) # {} \/ NullPrice(rows)

\* record_price_change: the exceptions of its try body.  The percentage divides
\* by previous_price (ZeroDivisionError at 0.0); a None price cannot be subtracted
RecordRaises(price_usd, previous_price) ==
    /\ previous_price # NoPrice
    /\ previous_price # price_usd
    /\ (previous_price = 0 \/ price_usd = NoPrice)

\* record_price_change(listing, previous_price): the table afterwards.
\* except Exception: logger.error(...) -- nothing is added
record_price_change(price_history, listing, previous_price) ==
    IF RecordRaises(listing.price_usd, previous_price) THEN price_history
    ELSE Append(price_history,
                [source_id |-> listing.source_id, price_usd |-> listing.price_usd,
                 previous_price |-> previous_price])

\* The outcome of a call: the session afterwards, the string returned ("" when
\* the call raised) and the exceptions that left the call
Outcome(d, r, e) == [db |-> d, result |-> r, raised |-> e]

\* create_new_listing.  After an IntegrityError the session is rolled back to
\* the last commit, and the handler's log line names source_id, which is no
\* variable of this function: NameError leaves the call.
create_new_listing(db, committed, listing_data) ==
    IF FlushRaises(db.watch_listings, listing_data)
    THEN Outcome(committed, "", {"NameError"})
    ELSE Outcome([watch_listings |-> Append(db.watch_listings, listing_data),
                  price_history |-> record_price_change(db.price_history, listing_data,
                                                        NoPrice)],
                 "new", {})

\* update_existing_listing for the row i.  new_price - previous_price raises
\* TypeError when previous_price is None; except Exception: return 'error'
update_existing_listing(db, i, listing_data) ==
    IF db.watch_listings[i].price_usd # listing_data.price_usd
       /\ listing_data.price_usd # NoPrice
    THEN Outcome([watch_listings |-> [db.watch_listings EXCEPT ![i] = listing_data],
                  price_history |-> record_price_change(db.price_history, listing_data,
                                                        db.watch_listings[i].price_usd)],
                 IF db.watch_listings[i].price_usd = NoPrice THEN "error"
                 ELSE "price_change", {})
    ELSE Outcome([db EXCEPT !.watch_listings[i] = listing_data], "updated", {})

\* The updater with neither the query nor the constraints of the table
process_single_listing_AlwaysInsert(db, committed, listing_data) ==
    IF listing_data.source_id = "" THEN Outcome(db, "error", {})
    ELSE Outcome([watch_listings |-> Append(db.watch_listings, listing_data),
                  price_history |-> record_price_change(db.price_history, listing_data,
                                                        NoPrice)],
                 "new", {})

process_single_listing(db, committed, listing_data) ==
    IF listing_data.source_id = "" THEN Outcome(db, "error", {})
    ELSE IF FirstRow(db.watch_listings, listing_data.source_id) # 0
    THEN update_existing_listing(db, FirstRow(db.watch_listings, listing_data.source_id),
                                 listing_data)
    ELSE create_new_listing(db, committed, listing_data)

\* process_listings: the counters of its loop, by what process_single_listing
\* returned ('error' and an exception count nothing)
NoCounts == [new_count |-> 0, updated_count |-> 0, price_changes |-> 0]

Counted(counts, result) ==
    CASE result = "new" -> [counts EXCEPT !.new_count = @ + 1]
      [] result = "updated" -> [counts EXCEPT !.updated_count = @ + 1]
      [] result = "price_change" ->
            [counts EXCEPT !.updated_count = @ + 1, !.price_changes = @ + 1]
      [] OTHER -> counts

\* The loop of process_listings from listings[k] on: the session and the
\* counters when it ends.  except Exception: continue
RECURSIVE ProcessFrom(_, _, _, _, _)
AfterListing(o, committed, listings, k, counts) ==
    ProcessFrom(o.db, committed, listings, k + 1, Counted(counts, o.result))

ProcessFrom(db, committed, listings, k, counts) ==
    IF k > Len(listings) THEN [db |-> db, counts |-> counts]
    ELSE AfterListing(process_single_listing(db, committed, listings[k]),
                      committed, listings, k, counts)

\* self.db.commit() and the return: a commit that cannot write a row raises
\* IntegrityError out of process_listings and the transaction is rolled back
Returned(p, committed) ==
    IF NullPrice(p.db.watch_listings)
    THEN [db |-> committed, committed |-> committed, returned |-> FALSE,
          raised |-> {"IntegrityError"}]
    ELSE [db |-> p.db, committed |-> p.db, returned |-> TRUE,
          new_count |-> p.counts.new_count, updated_count |-> p.counts.updated_count,
          price_changes |-> p.counts.price_changes, raised |-> {}]

\* The tuple a run returned; nothing when it raised
ReportOf(r) ==
    IF r.returned
    THEN [returned |-> TRUE, new_count |-> r.new_count,
          updated_count |-> r.updated_count, price_changes |-> r.price_changes]
    ELSE [returned |-> FALSE]

process_listings(db, committed, listings) ==
    Returned(ProcessFrom(db, committed, listings, 1, NoCounts), committed)

\* scrape_bobs_watches_multiple_pages.  A page is what scrape_search_results
\* did for one url: it raised, or it returned listings.  except Exception: continue
RECURSIVE AllListings(_, _)
AllListings(pages, k) ==
    IF k > Len(pages) THEN <<>>
    ELSE (IF pages[k].raises THEN <<>> ELSE pages[k].listings) \o AllListings(pages, k + 1)

\* The loop left at the first page that raises
RECURSIVE ListingsUntilFailure(_, _)
ListingsUntilFailure(pages, k) ==
    IF k > Len(pages) \/ pages[k].raises THEN <<>>
    ELSE pages[k].listings \o ListingsUntilFailure(pages, k + 1)

\* Remove duplicates by source_id: the first listing of each source_id, none
\* for a missing or empty one
RECURSIVE UniqueListings(_, _, _)
UniqueListings(all, k, unique_listings) ==
    IF k > Len(all) THEN unique_listings
    ELSE UniqueListings(all, k + 1,
                        IF all[k].source_id # ""
                           /\ RowsOf(unique_listings, all[k].source_id) = {}
                        THEN Append(unique_listings, all[k]) ELSE unique_listings)

scrape_bobs_watches_multiple_pages_StopsAtFailure(pages) ==
    UniqueListings(ListingsUntilFailure(pages, 1), 1, <<>>)

scrape_bobs_watches_multiple_pages(pages) ==
    UniqueListings(AllListings(pages, 1), 1, <<>>)

\* run_full_update: the results dict, the session and the table afterwards.
\* An exception of process_listings or of log_summary is caught: errors = 1
Results(scraped_listings, counts, errors) ==
    [returned |-> TRUE, scraped_listings |-> scraped_listings,
     new_listings |-> counts.new_count, updated_listings |-> counts.updated_count,
     price_changes |-> counts.price_changes, errors |-> errors]

Updated(r, bobs_listings, summary_raises) ==
    [db |-> r.db, committed |-> r.committed,
     results |-> IF r.returned
                 THEN Results(Len(bobs_listings), r, IF summary_raises THEN 1 ELSE 0)
                 ELSE Results(Len(bobs_listings), NoCounts, 1)]

Stored(db, committed, bobs_listings, summary_raises) ==
    IF bobs_listings = <<>>
    THEN [db |-> db, committed |-> committed, results |-> Results(0, NoCounts, 0)]
    ELSE Updated(process_listings(db, committed, bobs_listings), bobs_listings,
                 summary_raises)

run_full_update(db, committed, outcome) ==
    Stored(db, committed, scrape_bobs_watches_multiple_pages(outcome.pages),
           outcome.summary_raises)

\* backfill_price_history.  self.db.query(PriceHistory).filter(
\* PriceHistory.source_id == listing.source_id).first() finds nothing
HasNoHistory_Unqueried(price_history, source_id) == TRUE

HasNoHistory(price_history, source_id) == RowsOf(price_history, source_id) = {}

\* The loop over the listings that have a comparison key: the records added to
\* the session and created_count.  The session does not autoflush, so the query
\* sees the table as it was when the run began
RECURSIVE BackfillFrom(_, _, _, _)
BackfillFrom(price_history, pending, watch_listings, k) ==
    IF k > Len(watch_listings) THEN pending
    ELSE BackfillFrom(price_history,
                      IF watch_listings[k].comparison_key # None
                         /\ HasNoHistory(price_history, watch_listings[k].source_id)
                      THEN record_price_change(pending, watch_listings[k], NoPrice)
                      ELSE pending,
                      watch_listings, k + 1)

\* self.db.commit(); return created_count
Backfilled(db, pending) ==
    [db |-> [db EXCEPT !.price_history = @ \o pending], count |-> Len(pending)]

backfill_price_history(db) ==
    Backfilled(db, BackfillFrom(db.price_history, <<>>, db.watch_listings, 1))

\* ------------------------------------------------------------------------
\* BaseScraper.get_page and Chrono24Scraper.get_page
\* ------------------------------------------------------------------------
\* max_retries = 3 and retries: int = 3
max_retries == 3
retries == 3

\* 2 ** attempt
RECURSIVE Pow2(_)
Pow2(n) == IF n = 0 THEN 1 ELSE 2 * Pow2(n - 1)

\* A call of get_page: the scraper, the attempt of the loop, the responses to
\* the requests made, the back-off waits in seconds, and what was returned
\* (Running until the call returns)
Running == "Running"
Page == "BeautifulSoup"

Calling(scraper) ==
    [scraper |-> scraper, attempt |-> 0, responses |-> <<>>, sleeps |-> <<>>,
     returned |-> Running]

NoFetch == Calling("")

\* Another attempt follows this one
RetriesLeft_Always(attempt, n) == TRUE

RetriesLeft(attempt, n) == attempt < n - 1

\* The next iteration of for attempt in range(n); the loop may be over
NextAttempt(f, n, waits) ==
    [f EXCEPT !.attempt = @ + 1, !.sleeps = @ \o waits,
              !.returned = IF f.attempt + 1 >= n THEN None ELSE Running]

\* One iteration of BaseScraper.get_page.  raise_for_status() raises HTTPError
\* for a 4xx or 5xx status; every failure of the request is a RequestException
BaseAttempt(f, response) ==
    IF response = "200" THEN [f EXCEPT !.returned = Page]
    ELSE IF ~RetriesLeft(f.attempt, max_retries) THEN [f EXCEPT !.returned = None]
    ELSE NextAttempt(f, max_retries, <<Pow2(f.attempt)>>)

\* One iteration of Chrono24Scraper.get_page
Chrono24Attempt(f, response) ==
    CASE response = "200" -> [f EXCEPT !.returned = Page]
      [] response = "403" ->
            IF RetriesLeft(f.attempt, retries)
            THEN NextAttempt(f, retries, <<Pow2(f.attempt) * 10>>)
            ELSE [f EXCEPT !.returned = None]
      [] response = "429" -> NextAttempt(f, retries, <<Pow2(f.attempt) * 15>>)
      [] response = "exception" ->
            NextAttempt(f, retries,
                        IF RetriesLeft(f.attempt, retries) THEN <<10>> ELSE <<>>)
      [] OTHER -> NextAttempt(f, retries, <<>>)

\* ------------------------------------------------------------------------
\* WhatsAppIntegration
\* ------------------------------------------------------------------------
\* The mapped attributes of the class WatchListing
Columns == {"id", "source", "source_id", "url", "brand", "model", "reference_number",
            "year", "condition", "has_box", "has_papers", "price_usd",
            "original_currency", "original_price", "case_size_mm", "material",
            "movement", "dial_type", "special_edition", "comparison_key",
            "seller_name", "seller_location", "seller_rating", "raw_data",
            "first_seen", "last_updated", "is_active"}

\* WatchListing(**listing_data) raises TypeError: a key of the dict is no
\* attribute of the class
InvalidKeyword(listing_data) == (DOMAIN listing_data) \ Columns # {}

\* s[:n]
Prefix(s, n) == SubSeq(s, 1, Min(n, Len(s)))

\* hash(s) of a str: a value the interpreter derives from s and from the seed
\* it drew when the process started
HashOf(seed, s) == [seed |-> seed, of |-> s]

\* f'whatsapp_{stamp}_{hash}', kept as its two parts
SourceId(stamp, hash) == [timestamp |-> stamp, hash |-> hash]

\* dealer_group.lower().replace(" ", "_")
RECURSIVE Underscored(_)
Underscored(s) ==
    IF s = "" THEN ""
    ELSE (IF SubSeq(s, 1, 1) = " " THEN "_" ELSE SubSeq(s, 1, 1))
            \o Underscored(SubSeq(s, 2, Len(s)))

\* The listing_data dict of process_whatsapp_export, built at the time stamp
ListingData(l, dealer_group, stamp, seed) ==
    [source |-> "whatsapp_" \o Underscored(Lower(dealer_group)),
     source_id |-> SourceId(stamp, HashOf(seed, Prefix(l.raw_message, 50))),
     url |-> "whatsapp://group/" \o dealer_group,
     brand |-> l.watch_info.brand, model |-> l.watch_info.model,
     reference_number |-> l.watch_info.reference, price_usd |-> l.price_usd,
     source_type |-> l.source_type, communication_type |-> l.communication_type,
     dealer_group |-> dealer_group,
     special_edition |-> l.watch_info.special_edition,
     material |-> l.watch_info.material, dial_type |-> l.watch_info.dial_color,
     comparison_key |-> generate_comparison_key(l.watch_info),
     raw_data |-> [original_message |-> l.raw_message, confidence |-> l.confidence,
                   parsed_timestamp |-> stamp]]

\* datetime.now() at each listing of the loop: the clock read at the start and
\* the time that passed before each listing
RECURSIVE StampAt(_, _, _)
StampAt(start, ticks, k) == IF k = 0 THEN start ELSE StampAt(start, ticks, k - 1) + ticks[k]

ProcessedData(parsed_listings, dealer_group, start, ticks, seed) ==
    [k \in 1..Len(parsed_listings) |->
        ListingData(parsed_listings[k], dealer_group, StampAt(start, ticks, k), seed)]

process_whatsapp_export(export_text, dealer_group, start, ticks, seed) ==
    ProcessedData(parse_whatsapp_export(export_text), dealer_group, start, ticks, seed)

\* The loop of save_wholesale_listings: the rows added to the session
RECURSIVE AddedRows(_, _)
AddedRows(processed_listings, k) ==
    IF k > Len(processed_listings) THEN <<>>
    ELSE (IF InvalidKeyword(processed_listings[k]) THEN <<>>
          ELSE <<processed_listings[k]>>) \o AddedRows(processed_listings, k + 1)

\* self.session.commit() raises: a column that is nullable=False is null, or
\* two rows have one source_id
NullColumn(row) == row.price_usd = NoPrice \/ row.brand = None \/ row.model = None

CommitRaises(rows) ==
    \/ \E i \in 1..Len(rows) : NullColumn(rows[i])
    \/ \E i \in 1..Len(rows) : \E j \in 1..Len(rows) :
          i # j /\ rows[i].source_id = rows[j].source_id

\* save_wholesale_listings: the table afterwards and the count returned.
\* except Exception: self.session.rollback(); return 0
Saved(rows, added) ==
    IF CommitRaises(rows \o added) THEN [rows |-> rows, count |-> 0]
    ELSE [rows |-> rows \o added, count |-> Len(added)]

save_wholesale_listings(rows, processed_listings) ==
    Saved(rows, AddedRows(processed_listings, 1))

\* ------------------------------------------------------------------------
\* IntegratedWhatsAppSystem
\* ------------------------------------------------------------------------
\* The EnhancedWatchListing of a dealer message: the listing extracted from
\* its text, with the time and the dealer of the message
EnhancedListing(message) ==
    [timestamp |-> message.timestamp, dealer_name |-> message.dealer_name]
        @@ extract_watch_listing(message.message_text)

\* process_chat_export: the listings of the messages in which a watch was found
RECURSIVE EnhancedListingsOf(_, _)
KeptIfFound(l) == IF l.found THEN <<l>> ELSE <<>>

EnhancedListingsOf(messages, k) ==
    IF k > Len(messages) THEN <<>>
    ELSE KeptIfFound(EnhancedListing(messages[k])) \o EnhancedListingsOf(messages, k + 1)

\* convert_enhanced_listing_to_db
convert_enhanced_listing_to_db(l, seed) ==
    [source |-> "whatsapp_dealers",
     source_id |-> SourceId(l.timestamp, HashOf(seed, Prefix(l.raw_message, 50))),
     url |-> "whatsapp://group/usa_watch_dealers",
     brand |-> l.brand, model |-> IF l.model = None THEN "Unknown" ELSE l.model,
     reference_number |-> l.reference_number, serial_number |-> l.serial_number,
     price_usd |-> l.price_usd, source_type |-> "wholesale",
     communication_type |-> "whatsapp_group", dealer_group |-> "USA WATCH DEALERS",
     condition |-> l.condition, bracelet_condition |-> l.bracelet_condition,
     case_condition |-> None, includes_label |-> l.includes_label,
     has_box |-> l.has_box, has_papers |-> l.has_papers, has_warranty_card |-> FALSE,
     complete_set |-> l.complete_set, image_files |-> None,
     seller_name |-> l.dealer_name, comparison_key |-> l.comparison_key,
     raw_data |-> [original_message |-> l.raw_message, confidence |-> l.confidence,
                   parsed_timestamp |-> l.timestamp, images_count |-> 0]]

\* valid_listings: the listings with a price
RECURSIVE ValidListings(_, _)
ValidListings(enhanced_listings, k) ==
    IF k > Len(enhanced_listings) THEN <<>>
    ELSE (IF enhanced_listings[k].price_usd # NoPrice THEN <<enhanced_listings[k]>>
          ELSE <<>>) \o ValidListings(enhanced_listings, k + 1)

\* WatchListing(**listing_data), self.session.add(listing), self.session.flush()
\* raise: the dict has a key the class does not have, or the table refuses the row
InsertRaises(rows, listing_data) ==
    \/ InvalidKeyword(listing_data)
    \/ NullColumn(listing_data)
    \/ RowsOf(rows, listing_data.source_id) # {}

\* The loop of save_enhanced_listings from valid_listings[k] on: the rows of
\* the open transaction and saved_count when it ends.  A row whose source_id
\* is there already is skipped; after an insert error the session is rolled
\* back to the last commit
RECURSIVE SaveFrom(_, _, _, _, _, _)
SaveOne(rows, committed_rows, listing_data, saved_count) ==
    IF FirstRow(rows, listing_data.source_id) # 0
    THEN [rows |-> rows, count |-> saved_count]
    ELSE IF InsertRaises(rows, listing_data)
    THEN [rows |-> committed_rows, count |-> saved_count]
    ELSE [rows |-> Append(rows, listing_data), count |-> saved_count + 1]

AfterSave(o, committed_rows, valid_listings, k, seed) ==
    SaveFrom(o.rows, committed_rows, valid_listings, k + 1, o.count, seed)

SaveFrom(rows, committed_rows, valid_listings, k, saved_count, seed) ==
    IF k > Len(valid_listings) THEN [rows |-> rows, count |-> saved_count]
    ELSE AfterSave(SaveOne(rows, committed_rows,
                           convert_enhanced_listing_to_db(valid_listings[k], seed),
                           saved_count),
                   committed_rows, valid_listings, k, seed)

\* A save that keeps and counts every listing it is given
save_enhanced_listings_Unchecked(rows, enhanced_listings, seed) ==
    [rows |-> rows \o [k \in 1..Len(enhanced_listings) |->
                          convert_enhanced_listing_to_db(enhanced_listings[k], seed)],
     count |-> Len(enhanced_listings)]

\* save_enhanced_listings: the table after self.session.commit() and the
\* count returned
save_enhanced_listings(rows, enhanced_listings, seed) ==
    SaveFrom(rows, rows, ValidListings(enhanced_listings, 1), 1, 0, seed)

\* ------------------------------------------------------------------------
\* Inputs
\* ------------------------------------------------------------------------
\* The values of the clock, the seeds of hash() and the group of the export
MaxClock == 2

HashSeeds == {1, 2}

DealerGroups == {"Premium Dealers"}

MaxTitlePhrases == 2
MaxPhrases == 3

\* The phrases of S, in list order, as one text
RECURSIVE JoinPhrases(_, _, _)
JoinPhrases(phrases, S, k) ==
    IF k > Len(phrases) THEN ""
    ELSE (IF k \in S THEN phrases[k] ELSE "") \o JoinPhrases(phrases, S, k + 1)

Texts(phrases, max) ==
    {JoinPhrases(phrases, S, 1) :
        S \in {T \in SUBSET (1..Len(phrases)) : Cardinality(T) <= max}}

TitlePhrases == <<
    "Rolex Submariner 1680 ", "Yellow Gold ", "Tiffany & Co. Dial ", "Kermit ",
    "Green Bezel ", "Blue Dial ", "18k Gold ", "Blue Bezel ", "Slate Serti ",
    "Stainless Steel Oyster Bracelet "
>>

Titles == Texts(TitlePhrases, MaxTitlePhrases) \cup {Absent}

Urls == {Absent, "",
         "https://www.bobswatches.com/vintage-rolex-submariner-ref-1680-blue-dial.html"}

\* The key is missing, or holds a reference, or holds None (a null mpn)
References == {Absent, None, "16220", "16610LV", "116710BLNR"}

MessagePhrases == <<
    "Blue dial ", "Sub 1680 Tiffany dial ", "$1001 ", "asking 42K ", "$30000, ",
    "located in new york and ready to ship out tomorrow, ",
    "1675 GMT ", "$18000 ", "$9000 ", "$2,500,000 ", "Rolex 116610 Sub "
>>

ExampleMessages == {
    "asking 42K for this Sub 116610",
    "Sub 1680 $30000, GMT 1675 $18000",
    "Selling for $999", "Selling for $2,500,000", "Selling for $42,000",
    "hello, how are you?",
    "Just checking prices on Sub 116610", "$45,000 for what model?",
    "Sub 116610 $9000 or $, best offer"
}

Messages == Texts(MessagePhrases, MaxPhrases) \cup ExampleMessages

\* A chat export is a sequence of messages, each a header line and a body
MaxBatch == 2

WellFormedHeaders == {"7/31/25, 5:20 PM - Bob: "}

\* A header without its comma and dash; a header whose date is no date
MalformedHeaders == {"7/31/25 5:20 PM Bob: ", "99/99/25, 5:20 PM - Bob: "}

Bodies == {"Sub 116610 for $9000\n", "Daytona 116500 asking $30000\n",
           "hello, how are you?\n"}

ChatMessages == [header : WellFormedHeaders \cup MalformedHeaders, body : Bodies]

Batches == UNION {[1..n -> ChatMessages] : n \in 1..MaxBatch}

\* The text of the export file
RECURSIVE ExportOf(_)
ExportOf(b) ==
    IF b = <<>> THEN "" ELSE Head(b).header \o Head(b).body \o ExportOf(Tail(b))

\* Scraped listings: the source_id ('' is a missing one) and the price (None,
\* 0.0 and two prices in dollars)
MaxCalls == 3

SourceIds == {"", "bobs-1680", "bobs-16610"}

ObservedPrices == {NoPrice, 0, Dollars(9000), Dollars(9500)}

Observations == [source_id : SourceIds, price_usd : ObservedPrices]

\* The lists handed to process_listings, and the number of runs of an updater
MaxListings == 2
MaxRuns == 2

ListingBatches == UNION {[1..n -> Observations] : n \in 0..MaxListings}

\* The tables backfill_price_history finds: each source_id has no listing, or
\* one listing with or without a comparison key, with or without a history record
StoredIds == <<"bobs-1680", "bobs-16610">>

StoredRows ==
    [stored : BOOLEAN, price_usd : {Dollars(9000), Dollars(9500)},
     comparison_key : {None, "1680-standard"}, recorded : BOOLEAN]

RowsIfStored(r, source_id) ==
    IF ~r.stored THEN <<>>
    ELSE <<[source_id |-> source_id, price_usd |-> r.price_usd,
            comparison_key |-> r.comparison_key]>>

HistoryIfStored(r, source_id) ==
    IF ~r.stored \/ ~r.recorded THEN <<>>
    ELSE <<[source_id |-> source_id, price_usd |-> r.price_usd,
            previous_price |-> NoPrice]>>

StoreOf(choice) ==
    [watch_listings |-> RowsIfStored(choice[1], StoredIds[1])
                            \o RowsIfStored(choice[2], StoredIds[2]),
     price_history |-> HistoryIfStored(choice[1], StoredIds[1])
                            \o HistoryIfStored(choice[2], StoredIds[2])]

Stores == {StoreOf(choice) : choice \in [1..2 -> StoredRows]}

\* What a request ends in: a status, or an exception of the connection
Responses == {"200", "403", "429", "500", "exception"}

Scrapers == {"BaseScraper", "Chrono24Scraper"}

\* What the collaborators of a run of run_full_update do: each page raises or
\* gives listings, the query of log_summary raises or not
MaxPages == 2

PageResults ==
    {[raises |-> TRUE, listings |-> <<>>], [raises |-> FALSE, listings |-> <<>>]}
        \cup {[raises |-> FALSE, listings |-> <<o>>] : o \in Observations}

RunOutcomes ==
    [pages : UNION {[1..n -> PageResults] : n \in 0..MaxPages}, summary_raises : BOOLEAN]

NoOutcome == [pages |-> <<>>, summary_raises |-> FALSE]

\* The tables a run finds: empty, or one listing recorded at its first price
UpdaterStores ==
    {EmptyDb,
     [watch_listings |-> <<[source_id |-> "bobs-1680", price_usd |-> Dollars(9000)]>>,
      price_history |-> <<[source_id |-> "bobs-1680", price_usd |-> Dollars(9000),
                           previous_price |-> NoPrice]>>]}

\* A listing dict without any of its keys
NoListing ==
    [title |-> Absent, url |-> Absent, reference_number |-> Absent,
     dial_type |-> Absent, special_edition |-> Absent, comparison_key |-> Absent]

\* Two threads call one scraper and one parser at the same time
Workers == {"w1", "w2"}

\* self.price_patterns ... self.dial_patterns as __init__ leaves them
Tables ==
    [price_patterns |-> price_patterns, rolex_patterns |-> rolex_patterns,
     special_edition_patterns |-> special_edition_patterns,
     material_patterns |-> material_patterns, dial_patterns |-> dial_patterns]

ConcurrentListings ==
    {[NoListing EXCEPT !.title = t, !.reference_number = r] :
        t \in {"Rolex Submariner 1680 Kermit ", "Yellow Gold Tiffany & Co. Dial "},
        r \in {Absent, "16610LV"}}

ConcurrentMessages ==
    {"Sub 1680 $30000, GMT 1675 $18000", "Sub 116610 $9000 or $, best offer",
     "hello, how are you?"}

\* A call that has not started: the operation, its argument, its position, the
\* listing dict as it is now and the value returned
Frames ==
    {[op |-> "classify", listing0 |-> l, listing |-> l, message |-> "", pc |-> "call",
      ret |-> <<>>] : l \in ConcurrentListings}
    \cup {[op |-> "extract", listing0 |-> NoListing, listing |-> NoListing, message |-> m,
           pc |-> "call", ret |-> <<>>] : m \in ConcurrentMessages}

\* The local variables of a call before any is assigned
NoLocals ==
    [prices |-> <<>>, watches |-> <<>>, search_text |-> "", reference |-> "",
     detected_suffix |-> ""]

\* The local variables of the call of worker w live in its own stack frame
Slot_OnInstance(w) == "w1"

Slot(w) == w

\* Dealer messages for the enhanced processor
DealerPhrases == <<
    "Submariner ", "lnib ", "GMT-Master ", "116610LN, ", "16710 ", "1680 ",
    "full set ", "$9000 ", "+ label "
>>

DealerExamples == {
    "Submariner 116610LN, full set", "", "hello", "RM11-03 $150K",
    "Omega 310.30.42.50.01.001 box papers", "Patek 5711 no box",
    "116610Ln full links 3 links", "Sub 1680 3 links naked", "16220, L ser. $4500",
    "ser. L123456 Daytona 116500 mint"
}

DealerMessages == Texts(DealerPhrases, MaxPhrases) \cup DealerExamples

\* The messages of a dealer chat: the time of the message, the dealer and the
\* text (with a price, without one, without a watch)
DealerTimes == {1, 2}

ChatTexts == {"16220, L ser. $4500", "Submariner 116610LN, full set",
              "Sub 1680 3 links naked $9000", "hello"}

DealerChatMessages ==
    [timestamp : DealerTimes, dealer_name : {"Bob"}, message_text : ChatTexts]

DealerChats == UNION {[1..n -> DealerChatMessages] : n \in 0..MaxListings}

\* ------------------------------------------------------------------------
\* State
\* ------------------------------------------------------------------------
VARIABLES
    listing,          \* the scraped listing dict handed to detect_watch_variations
    message,          \* the chat message text
    prices,           \* parse_message: the result of extract_prices
    watches,          \* parse_message: the result of extract_watch_details
    listings,         \* the list parse_message returned
    enhanced_price,   \* what EnhancedWhatsAppProcessor._extract_price returned
    calls,            \* the calls that have returned
    raised,           \* the exceptions that calls let through to their caller
    batch,            \* the chat messages of the export handed to parse_whatsapp_export
    all_listings,     \* the list parse_whatsapp_export returned
    db,               \* the updater's session: watch_listings and price_history
    committed,        \* the two tables as of the last commit
    result,           \* what the last process_single_listing returned
    ncalls,           \* the number of process_single_listing calls so far
    tables,           \* the pattern tables of the shared parser instance
    frames,           \* concurrent calls: the call of each worker
    locals,           \* concurrent calls: the local variables, by stack frame
    enhanced_listing, \* what EnhancedWhatsAppProcessor.extract_watch_listing returned
    report,           \* what the last run over a whole batch returned
    nruns,            \* the number of runs over a whole batch so far
    processed,        \* the list the processing of the chat export returned
    now,              \* the clock that datetime.now() reads
    hashseed,         \* the seed of hash() in this interpreter process
    fetch,            \* the call of get_page under way
    outcome           \* what the pages and the summary query do in a run

vars == <<listing, message, prices, watches, listings, enhanced_price, calls, raised,
          batch, all_listings, db, committed, result, ncalls, tables, frames, locals,
          enhanced_listing, report, nruns, processed, now, hashseed, fetch,
          outcome>>

thread_vars == <<tables, frames, locals>>

parser_vars == <<listing, message, prices, watches, listings, enhanced_price, batch,
                 all_listings>>

store_vars == <<db, committed, result, ncalls>>

ingest_vars == <<processed, now, hashseed>>

more_vars == <<enhanced_listing, report, nruns, ingest_vars, fetch, outcome>>

\* No run over a batch has returned
NoReport == [returned |-> FALSE]

\* Nothing of the other subsystems has run
NoMore ==
    /\ enhanced_listing = NoWatchListing
    /\ report = NoReport
    /\ nruns = 0
    /\ processed = <<>>
    /\ now = 0
    /\ hashseed = 1
    /\ fetch = NoFetch
    /\ outcome = NoOutcome

NoStore ==
    /\ db = EmptyDb
    /\ committed = EmptyDb
    /\ result = ""
    /\ ncalls = 0
    /\ tables = Tables
    /\ frames = <<>>
    /\ locals = <<>>

InitClassify ==
    /\ listing \in {[title |-> t, url |-> u, reference_number |-> r,
                     dial_type |-> old, special_edition |-> old,
                     comparison_key |-> Absent] :
                        t \in Titles, u \in Urls, r \in References,
                        old \in {Absent, "Old"}}
    /\ message = ""
    /\ prices = <<>>
    /\ watches = <<>>
    /\ listings = <<>>
    /\ enhanced_price = NoPrice
    /\ calls = {}
    /\ raised = {}
    /\ batch = <<>>
    /\ all_listings = <<>>
    /\ NoStore
    /\ NoMore

InitExtract ==
    /\ listing = NoListing
    /\ message \in Messages
    /\ prices = <<>>
    /\ watches = <<>>
    /\ listings = <<>>
    /\ enhanced_price = NoPrice
    /\ calls = {}
    /\ raised = {}
    /\ batch = <<>>
    /\ all_listings = <<>>
    /\ NoStore
    /\ NoMore

InitBatch ==
    /\ listing = NoListing
    /\ message = ""
    /\ prices = <<>>
    /\ watches = <<>>
    /\ listings = <<>>
    /\ enhanced_price = NoPrice
    /\ calls = {}
    /\ raised = {}
    /\ batch \in Batches
    /\ all_listings = <<>>
    /\ NoStore
    /\ NoMore

InitStore ==
    /\ listing = NoListing
    /\ message = ""
    /\ prices = <<>>
    /\ watches = <<>>
    /\ listings = <<>>
    /\ enhanced_price = NoPrice
    /\ calls = {}
    /\ raised = {}
    /\ batch = <<>>
    /\ all_listings = <<>>
    /\ NoStore
    /\ NoMore

InitConcurrent ==
    /\ listing = NoListing
    /\ message = ""
    /\ prices = <<>>
    /\ watches = <<>>
    /\ listings = <<>>
    /\ enhanced_price = NoPrice
    /\ calls = {}
    /\ raised = {}
    /\ batch = <<>>
    /\ all_listings = <<>>
    /\ db = EmptyDb
    /\ committed = EmptyDb
    /\ result = ""
    /\ ncalls = 0
    /\ tables = Tables
    /\ frames \in [Workers -> Frames]
    /\ locals = [w \in Workers |-> NoLocals]
    /\ NoMore

\* One scraper and one parser used again: a listing to classify, or one of the
\* example messages to parse
InitRepeat ==
    \/ InitClassify
    \/ /\ InitExtract
       /\ message \in ExampleMessages

\* scraper.detect_watch_variations(listing)
DetectWatchVariations ==
    /\ "detect_watch_variations" \notin calls
    /\ listing' = detect_watch_variations(listing)
    /\ calls' = calls \cup {"detect_watch_variations"}
    /\ UNCHANGED <<message, prices, watches, listings, enhanced_price, raised,
                   batch, all_listings, store_vars, thread_vars, more_vars>>

\* parser.parse_message(message)
ParseMessage ==
    /\ "parse_message" \notin calls
    /\ prices' = IF TooShort(message) THEN <<>> ELSE extract_prices(message)
    /\ watches' = IF TooShort(message) THEN <<>> ELSE extract_watch_details(message)
    /\ listings' = IF TooShort(message) THEN <<>> ELSE ListingsOf(watches', prices', message)
    /\ calls' = calls \cup {"parse_message"}
    /\ raised' = raised \cup parse_message_raises(message)
    /\ UNCHANGED <<listing, message, enhanced_price, batch, all_listings, store_vars, thread_vars, more_vars>>

\* processor._extract_price(message)
ExtractPrice ==
    /\ "_extract_price" \notin calls
    /\ enhanced_price' = _extract_price(message)
    /\ calls' = calls \cup {"_extract_price"}
    /\ UNCHANGED <<listing, message, prices, watches, listings, raised, batch, all_listings,
                   store_vars, thread_vars, more_vars>>

\* parser.parse_whatsapp_export(export, dealer_group)
ParseWhatsappExport ==
    /\ "parse_whatsapp_export" \notin calls
    /\ all_listings' = parse_whatsapp_export(ExportOf(batch))
    /\ calls' = calls \cup {"parse_whatsapp_export"}
    /\ UNCHANGED <<listing, message, prices, watches, listings, enhanced_price, raised,
                   batch, store_vars, thread_vars, more_vars>>

\* updater.process_single_listing(listing_data), as process_listings calls it
ProcessSingleListing(listing_data) ==
    /\ ncalls < MaxCalls
    /\ db' = process_single_listing(db, committed, listing_data).db
    /\ result' = process_single_listing(db, committed, listing_data).result
    /\ raised' = raised \cup process_single_listing(db, committed, listing_data).raised
    /\ ncalls' = ncalls + 1
    /\ calls' = calls \cup {"process_single_listing"}
    /\ UNCHANGED <<parser_vars, committed, thread_vars, more_vars>>

\* self.db.commit() at the end of process_listings; a row whose price_usd was
\* set to None cannot be written, so such a batch is not committed
Commit ==
    /\ db # committed
    /\ \A i \in 1..Len(db.watch_listings) : db.watch_listings[i].price_usd # NoPrice
    /\ committed' = db
    /\ calls' = calls \cup {"commit"}
    /\ UNCHANGED <<parser_vars, db, result, ncalls, raised, thread_vars, more_vars>>

NextClassify == DetectWatchVariations

NextExtract == ParseMessage \/ ExtractPrice

NextBatch == ParseWhatsappExport

\* scraper.detect_watch_variations(listing) on the listing it has classified
DetectWatchVariationsAgain ==
    /\ "detect_watch_variations" \in calls
    /\ "detect_watch_variations again" \notin calls
    /\ listing' = detect_watch_variations(listing)
    /\ calls' = calls \cup {"detect_watch_variations again"}
    /\ UNCHANGED <<message, prices, watches, listings, enhanced_price, raised,
                   batch, all_listings, store_vars, thread_vars, more_vars>>

\* parser.parse_message(message) on the message it has parsed
ParseMessageAgain ==
    /\ "parse_message" \in calls
    /\ "parse_message again" \notin calls
    /\ prices' = IF TooShort(message) THEN <<>> ELSE extract_prices(message)
    /\ watches' = IF TooShort(message) THEN <<>> ELSE extract_watch_details(message)
    /\ listings' = IF TooShort(message) THEN <<>> ELSE ListingsOf(watches', prices', message)
    /\ calls' = calls \cup {"parse_message again"}
    /\ raised' = raised \cup parse_message_raises(message)
    /\ UNCHANGED <<listing, message, enhanced_price, batch, all_listings, store_vars, thread_vars, more_vars>>

\* The steps of a call leave everything but the threads alone
Step(w, frame, local) ==
    /\ frames' = [frames EXCEPT ![w] = frame]
    /\ locals' = [locals EXCEPT ![Slot(w)] = local]
    /\ UNCHANGED <<listing, message, prices, watches, listings, enhanced_price, calls,
                   raised, batch, all_listings, db, committed, result, ncalls, tables,
                   more_vars>>

\* parse_message up to prices = self.extract_prices(message_text), or its
\* early return
ExtractPrices(w) ==
    /\ frames[w].op = "extract" /\ frames[w].pc = "call"
    /\ IF TooShort(frames[w].message)
       THEN Step(w, [frames[w] EXCEPT !.pc = "done", !.ret = <<>>], locals[Slot(w)])
       ELSE Step(w, [frames[w] EXCEPT !.pc = "watches"],
                 [locals[Slot(w)] EXCEPT
                     !.prices = ListOfSet(PricesOfPatterns(tables.price_patterns,
                                                           frames[w].message, 1))])

\* watches = self.extract_watch_details(message_text)
ExtractWatches(w) ==
    /\ frames[w].op = "extract" /\ frames[w].pc = "watches"
    /\ Step(w, [frames[w] EXCEPT !.pc = "match"],
            [locals[Slot(w)] EXCEPT !.watches = extract_watch_details(frames[w].message)])

\* matched_pairs = self.match_price_to_watch(watches, prices) ... return listings
MatchAndReturn(w) ==
    /\ frames[w].op = "extract" /\ frames[w].pc = "match"
    /\ Step(w, [frames[w] EXCEPT
                   !.pc = "done",
                   !.ret = ListingsOf(locals[Slot(w)].watches, locals[Slot(w)].prices,
                                      frames[w].message)],
            locals[Slot(w)])

\* detect_watch_variations up to listing['special_edition'] = None
ClassifyRead(w) ==
    /\ frames[w].op = "classify" /\ frames[w].pc = "call"
    /\ Step(w, [frames[w] EXCEPT !.pc = "scan", !.listing.dial_type = None,
                                 !.listing.special_edition = None],
            [locals[Slot(w)] EXCEPT
                !.search_text = SearchText(frames[w].listing),
                !.reference = Get(frames[w].listing, "reference_number", "unknown")])

\* detected_suffix = 'standard'; for var_key, var_info in variations.items(): ...
ClassifyScan(w) ==
    /\ frames[w].op = "classify" /\ frames[w].pc = "scan"
    /\ IF ScanVariations(locals[Slot(w)].search_text, 1) = 0
       THEN Step(w, [frames[w] EXCEPT !.pc = "key"],
                 [locals[Slot(w)] EXCEPT !.detected_suffix = "standard"])
       ELSE Step(w, [frames[w] EXCEPT
                        !.pc = "key",
                        !.listing.dial_type =
                            variations[ScanVariations(locals[Slot(w)].search_text, 1)].dial_type,
                        !.listing.special_edition =
                            variations[ScanVariations(locals[Slot(w)].search_text, 1)].special_edition],
                 [locals[Slot(w)] EXCEPT
                     !.detected_suffix =
                         variations[ScanVariations(locals[Slot(w)].search_text, 1)].suffix])

\* listing['comparison_key'] = f"{reference}-{detected_suffix}"
ClassifyKey(w) ==
    /\ frames[w].op = "classify" /\ frames[w].pc = "key"
    /\ Step(w, [frames[w] EXCEPT
                   !.pc = "done",
                   !.listing.comparison_key =
                       locals[Slot(w)].reference \o "-" \o locals[Slot(w)].detected_suffix],
            locals[Slot(w)])

NextConcurrent ==
    \E w \in Workers :
        \/ ExtractPrices(w)
        \/ ExtractWatches(w)
        \/ MatchAndReturn(w)
        \/ ClassifyRead(w)
        \/ ClassifyScan(w)
        \/ ClassifyKey(w)

NextRepeat ==
    DetectWatchVariations \/ ParseMessage \/ DetectWatchVariationsAgain \/ ParseMessageAgain

NextStore == (\E listing_data \in Observations : ProcessSingleListing(listing_data)) \/ Commit

SpecClassify == InitClassify /\ [][NextClassify]_vars

SpecExtract == InitExtract /\ [][NextExtract]_vars

SpecBatch == InitBatch /\ [][NextBatch]_vars

SpecRepeat == InitRepeat /\ [][NextRepeat]_vars

SpecConcurrent == InitConcurrent /\ [][NextConcurrent]_vars

SpecStore == InitStore /\ [][NextStore]_vars

\* ------------------------------------------------------------------------
\* The enhanced processor on one dealer message
\* ------------------------------------------------------------------------
\* Nothing has been parsed or classified
NoParse ==
    /\ listing = NoListing
    /\ prices = <<>>
    /\ watches = <<>>
    /\ listings = <<>>
    /\ enhanced_price = NoPrice
    /\ batch = <<>>
    /\ all_listings = <<>>

InitEnhanced ==
    /\ NoParse
    /\ message \in DealerMessages
    /\ calls = {}
    /\ raised = {}
    /\ NoStore
    /\ NoMore

\* processor.extract_watch_listing(message)
ExtractWatchListing ==
    /\ "extract_watch_listing" \notin calls
    /\ enhanced_listing' = extract_watch_listing(message)
    /\ calls' = calls \cup {"extract_watch_listing"}
    /\ UNCHANGED <<parser_vars, raised, store_vars, thread_vars, report, nruns, ingest_vars, fetch, outcome>>

NextEnhanced == ExtractWatchListing

SpecEnhanced == InitEnhanced /\ [][NextEnhanced]_vars

\* ------------------------------------------------------------------------
\* The updater on whole batches of scraped listings
\* ------------------------------------------------------------------------
\* updater.process_listings(scraped)
ProcessListings(scraped) ==
    /\ nruns < MaxRuns
    /\ db' = process_listings(db, committed, scraped).db
    /\ committed' = process_listings(db, committed, scraped).committed
    /\ report' = ReportOf(process_listings(db, committed, scraped))
    /\ raised' = raised \cup process_listings(db, committed, scraped).raised
    /\ nruns' = nruns + 1
    /\ calls' = calls \cup {"process_listings"}
    /\ UNCHANGED <<parser_vars, result, ncalls, thread_vars, enhanced_listing,
                   ingest_vars, fetch, outcome>>

NextProcess == \E scraped \in ListingBatches : ProcessListings(scraped)

SpecProcess == InitStore /\ [][NextProcess]_vars

\* ------------------------------------------------------------------------
\* The ingestion of a chat export by WhatsAppIntegration
\* ------------------------------------------------------------------------
InitIngest ==
    /\ listing = NoListing
    /\ message = ""
    /\ prices = <<>>
    /\ watches = <<>>
    /\ listings = <<>>
    /\ enhanced_price = NoPrice
    /\ calls = {}
    /\ raised = {}
    /\ batch \in Batches
    /\ all_listings = <<>>
    /\ NoStore
    /\ enhanced_listing = NoWatchListing
    /\ report = NoReport
    /\ nruns = 0
    /\ processed = <<>>
    /\ now = 0
    /\ hashseed \in HashSeeds
    /\ fetch = NoFetch
    /\ outcome = NoOutcome

\* The loop of process_whatsapp_export over the parsed listings, the clock
\* advancing or not before each of them
Converted(parsed_listings, dealer_group) ==
    \E ticks \in [1..Len(parsed_listings) -> 0..1] :
        /\ StampAt(now, ticks, Len(parsed_listings)) <= MaxClock
        /\ processed' = ProcessedData(parsed_listings, dealer_group, now, ticks, hashseed)
        /\ now' = StampAt(now, ticks, Len(parsed_listings))
        /\ all_listings' = parsed_listings

\* integration.process_whatsapp_export(chat_export, dealer_group)
ProcessWhatsappExport(dealer_group) ==
    /\ nruns < MaxRuns
    /\ Converted(parse_whatsapp_export(ExportOf(batch)), dealer_group)
    /\ nruns' = nruns + 1
    /\ calls' = calls \cup {"process_whatsapp_export"}
    /\ UNCHANGED <<listing, message, prices, watches, listings, enhanced_price, raised,
                   batch, store_vars, thread_vars, enhanced_listing, report, hashseed,
                   fetch, outcome>>

\* integration.save_wholesale_listings(processed_listings), once for each export
\* processed
SaveWholesaleListings ==
    /\ nruns > 0
    /\ IF report = NoReport THEN TRUE ELSE report.run # nruns
    /\ db' = [db EXCEPT !.watch_listings =
                            save_wholesale_listings(db.watch_listings, processed).rows]
    /\ committed' = db'
    /\ report' = [returned |-> TRUE, run |-> nruns,
                  count |-> save_wholesale_listings(db.watch_listings, processed).count]
    /\ calls' = calls \cup {"save_wholesale_listings"}
    /\ UNCHANGED <<parser_vars, raised, result, ncalls, thread_vars, enhanced_listing,
                   nruns, ingest_vars, fetch, outcome>>

NextIngest ==
    \/ \E dealer_group \in DealerGroups : ProcessWhatsappExport(dealer_group)
    \/ SaveWholesaleListings

SpecIngest == InitIngest /\ [][NextIngest]_vars

\* ------------------------------------------------------------------------
\* Runs of the pricing engine update
\* ------------------------------------------------------------------------
\* The table holds nothing or one listing with its first history record; the
\* pages and the summary query will do as in outcome
InitUpdate ==
    /\ NoParse
    /\ message = ""
    /\ calls = {}
    /\ raised = {}
    /\ db \in UpdaterStores
    /\ committed = db
    /\ result = ""
    /\ ncalls = 0
    /\ tables = Tables
    /\ frames = <<>>
    /\ locals = <<>>
    /\ enhanced_listing = NoWatchListing
    /\ report = NoReport
    /\ nruns = 0
    /\ processed = <<>>
    /\ now = 0
    /\ hashseed = 1
    /\ fetch = NoFetch
    /\ outcome \in RunOutcomes

\* updater.run_full_update(max_pages)
RunFullUpdate ==
    /\ nruns < MaxRuns
    /\ db' = run_full_update(db, committed, outcome).db
    /\ committed' = run_full_update(db, committed, outcome).committed
    /\ report' = run_full_update(db, committed, outcome).results
    /\ nruns' = nruns + 1
    /\ calls' = calls \cup {"run_full_update"}
    /\ UNCHANGED <<parser_vars, raised, result, ncalls, thread_vars, enhanced_listing,
                   ingest_vars, fetch, outcome>>

NextUpdate == RunFullUpdate

SpecUpdate == InitUpdate /\ [][NextUpdate]_vars

\* ------------------------------------------------------------------------
\* A call of get_page
\* ------------------------------------------------------------------------
InitFetch ==
    /\ NoParse
    /\ message = ""
    /\ calls = {}
    /\ raised = {}
    /\ NoStore
    /\ enhanced_listing = NoWatchListing
    /\ report = NoReport
    /\ nruns = 0
    /\ processed = <<>>
    /\ now = 0
    /\ hashseed = 1
    /\ fetch \in {Calling(scraper) : scraper \in Scrapers}
    /\ outcome = NoOutcome

\* response = self.session.get(url, ...) and the rest of the iteration
Answered(f, response) ==
    [(IF f.scraper = "BaseScraper" THEN BaseAttempt(f, response)
      ELSE Chrono24Attempt(f, response)) EXCEPT !.responses = Append(@, response)]

GetPageAttempt(response) ==
    /\ fetch.returned = Running
    /\ fetch' = Answered(fetch, response)
    /\ calls' = IF fetch'.returned = Running THEN calls ELSE calls \cup {"get_page"}
    /\ UNCHANGED <<parser_vars, raised, store_vars, thread_vars, enhanced_listing, report,
                   nruns, ingest_vars, outcome>>

NextFetch == \E response \in Responses : GetPageAttempt(response)

SpecFetch == InitFetch /\ [][NextFetch]_vars

\* Every request ends: session.get has a timeout and the waits are finite
SpecFetchFair == SpecFetch /\ WF_vars(NextFetch)

\* ------------------------------------------------------------------------
\* The backfill of the price history
\* ------------------------------------------------------------------------
InitBackfill ==
    /\ NoParse
    /\ message = ""
    /\ calls = {}
    /\ raised = {}
    /\ db \in Stores
    /\ committed = db
    /\ result = ""
    /\ ncalls = 0
    /\ tables = Tables
    /\ frames = <<>>
    /\ locals = <<>>
    /\ NoMore

\* service.backfill_price_history()
BackfillPriceHistory ==
    /\ nruns < MaxRuns
    /\ db' = backfill_price_history(db).db
    /\ committed' = db'
    /\ report' = [returned |-> TRUE, run |-> nruns + 1,
                  count |-> backfill_price_history(db).count]
    /\ nruns' = nruns + 1
    /\ calls' = calls \cup {"backfill_price_history"}
    /\ UNCHANGED <<parser_vars, raised, result, ncalls, thread_vars, enhanced_listing,
                   ingest_vars, fetch, outcome>>

NextBackfill == BackfillPriceHistory

SpecBackfill == InitBackfill /\ [][NextBackfill]_vars

\* ------------------------------------------------------------------------
\* The saving of enhanced listings by IntegratedWhatsAppSystem
\* ------------------------------------------------------------------------
\* The listings of a dealer chat have been extracted
InitSave ==
    /\ NoParse
    /\ message = ""
    /\ calls = {}
    /\ raised = {}
    /\ NoStore
    /\ enhanced_listing = NoWatchListing
    /\ report = NoReport
    /\ nruns = 0
    /\ processed \in {EnhancedListingsOf(chat, 1) : chat \in DealerChats}
    /\ now = 0
    /\ hashseed \in HashSeeds
    /\ fetch = NoFetch
    /\ outcome = NoOutcome

\* system.save_enhanced_listings(enhanced_listings)
SaveEnhancedListings ==
    /\ nruns < MaxRuns
    /\ db' = [db EXCEPT !.watch_listings =
                  save_enhanced_listings(db.watch_listings, processed, hashseed).rows]
    /\ committed' = db'
    /\ report' = [returned |-> TRUE, run |-> nruns + 1,
                  count |-> save_enhanced_listings(db.watch_listings, processed,
                                                   hashseed).count]
    /\ nruns' = nruns + 1
    /\ calls' = calls \cup {"save_enhanced_listings"}
    /\ UNCHANGED <<parser_vars, raised, result, ncalls, thread_vars, enhanced_listing,
                   ingest_vars, fetch, outcome>>

NextSave == SaveEnhancedListings

SpecSave == InitSave /\ [][NextSave]_vars

\* ------------------------------------------------------------------------
\* Properties of the variation classifier
\* ------------------------------------------------------------------------
Classified == "detect_watch_variations" \in calls

\* The text the rules are matched against: title + ' ' + url, lower-cased
LoweredText(l) == Lower(Get(l, "title", "") \o " " \o Get(l, "url", ""))

\* Rule k has a keyword that is a substring of the text
RuleApplies(k, text) ==
    \E j \in 1..Len(variations[k].keywords) : Contains(text, variations[k].keywords[j])

ReferenceOf(l) == Get(l, "reference_number", "unknown")

\* C1: the classifier assigns the suffix of the first rule, in declaration
\* order, that has a keyword in the lower-cased title + ' ' + url; no later
\* rule overrides it, whatever the length or number of its matching keywords.
C1_FirstRuleWins ==
    Classified =>
        \A k \in 1..Len(variations) :
            (RuleApplies(k, LoweredText(listing))
                /\ \A j \in 1..(k - 1) : ~RuleApplies(j, LoweredText(listing)))
            => listing.comparison_key = ReferenceOf(listing) \o "-" \o variations[k].suffix

\* A classified listing to which two rules apply, the later one through a
\* longer keyword than any keyword of the first one
C1_Witness ==
    /\ Classified
    /\ \E k \in 1..Len(variations) : \E m \in (k + 1)..Len(variations) :
          /\ RuleApplies(k, LoweredText(listing))
          /\ \A j \in 1..(k - 1) : ~RuleApplies(j, LoweredText(listing))
          /\ \E i \in 1..Len(variations[m].keywords) :
                /\ Contains(LoweredText(listing), variations[m].keywords[i])
                /\ \A j \in 1..Len(variations[k].keywords) :
                      Len(variations[k].keywords[j]) < Len(variations[m].keywords[i])
          /\ listing.comparison_key = ReferenceOf(listing) \o "-" \o variations[k].suffix

NamedTags == {"tiffany", "tropical", "spider", "sigma", "comex", "dominos",
              "military", "kermit", "hulk"}

GenericTags == {"gold", "twotone", "blue", "white", "red", "silver", "bluebezel",
                "greenbezel", "blackbezel", "serti", "champagne"}

\* The tag of a key: what follows the reference and the '-'
TagOf(l) ==
    SubSeq(l.comparison_key, Len(ReferenceOf(l)) + 2, Len(l.comparison_key))

\* C2: when the search text contains a keyword of a named historical rule
\* (tiffany .. hulk), the tag is one of the named tags and never a material,
\* dial-colour, bezel-colour or special-dial tag, whatever else the text has.
C2_NamedNeverShadowed ==
    (Classified
        /\ \E k \in 1..Len(variations) :
              variations[k].suffix \in NamedTags /\ RuleApplies(k, LoweredText(listing)))
    => (TagOf(listing) \in NamedTags /\ TagOf(listing) \notin GenericTags)

\* 'yellow gold tiffany dial' is classified tiffany
C2_Witness ==
    /\ Classified
    /\ Contains(LoweredText(listing), "yellow gold tiffany")
    /\ TagOf(listing) = "tiffany"

\* ^[a-z0-9]+-[a-z]+$
KeyFormat ==
    Pattern(Cat(<<AtStart, Plus(Chr(LOWER \cup DIGIT)), Str("-"), Plus(Chr(LOWER)), AtEnd>>),
            Empty, Empty, FALSE)

\* C3: every comparison key of the classifier matches ^[a-z0-9]+-[a-z]+$ (the
\* reference lower-cased, one variation suffix).
C3_KeyFormat ==
    Classified => MatchAt(KeyFormat, listing.comparison_key, 1).found

\* C10: when no keyword of any rule occurs in the search text (title and URL
\* empty or absent included), the key is '<reference>-standard'.
C10_DefaultStandard ==
    (Classified /\ \A k \in 1..Len(variations) : ~RuleApplies(k, LoweredText(listing)))
    => listing.comparison_key = ReferenceOf(listing) \o "-standard"

\* classify('16220', 'stainless steel oyster bracelet') gives '16220-standard'
C10_Witness ==
    /\ Classified
    /\ listing.title = "Stainless Steel Oyster Bracelet "
    /\ listing.url \in {Absent, ""}
    /\ listing.reference_number = "16220"
    /\ listing.comparison_key = "16220-standard"

\* ------------------------------------------------------------------------
\* Properties of the free-text extractor
\* ------------------------------------------------------------------------
Parsed == "parse_message" \in calls

PriceExtracted == "_extract_price" \in calls

\* classify(reference, text) of the Variation Classifier: the key of the listing
\* whose reference number and title are the given ones
ClassifierKey(reference, text) ==
    detect_watch_variations(
        [NoListing EXCEPT !.title = text, !.reference_number = reference]).comparison_key

\* C4: the comparison key of every candidate the extractor emits equals the
\* key the classifier returns for the candidate's reference number and the full
\* message text.
C4_ExtractorKeyIsClassifierKey ==
    Parsed =>
        \A i \in 1..Len(listings) :
            generate_comparison_key(listings[i].watch_info)
                = ClassifierKey(listings[i].watch_info.reference, message)

\* The amounts written with a trailing K in the text, in dollars: the digits
\* before a K that no digit follows, times 1000
KAmounts(text) ==
    LET ms == FindAll(price_patterns[3], text)
    IN  {DigitsValue(ms[k]) * 1000 : k \in 1..Len(ms)}

\* C5: an amount written with a trailing K is extracted as the number times
\* 1000 (when that lies in the band), and 'asking 42K for this Sub 116610'
\* yields a candidate whose price is 42000.0.
C5_TrailingKTimes1000 ==
    Parsed =>
        /\ \A n \in KAmounts(message) :
              (~TooShort(message) /\ 1000 <= n /\ n <= 2000000)
              => \E i \in 1..Len(prices) : prices[i] = Dollars(n)
        /\ message = "asking 42K for this Sub 116610"
              => \E i \in 1..Len(listings) : listings[i].price_usd = Dollars(42000)

\* A list without its repetitions, each element where it first occurs
RECURSIVE Distinct(_)
Distinct(s) ==
    IF s = <<>> THEN <<>>
    ELSE LET init == Distinct(SubSeq(s, 1, Len(s) - 1))
             last == s[Len(s)]
         IN  IF \E i \in 1..Len(init) : init[i] = last THEN init ELSE Append(init, last)

\* The prices of the message in the order the patterns discovered them
PricesInExtractionOrder == Distinct(DiscoveredPrices(message))

\* C6: with N watches and N prices (N > 1) the i-th candidate pairs the i-th
\* watch with the i-th price, both in extraction order, and
\* 'Sub 1680 $30000, GMT 1675 $18000' yields 1680 at 30000 and 1675 at 18000
\* with keys '1680-standard' and '1675-standard'.
C6_PositionalPairing ==
    Parsed =>
        /\ (Len(watches) = Len(prices) /\ Len(watches) > 1)
              => /\ Len(listings) = Len(watches)
                 /\ \A i \in 1..Len(listings) :
                       /\ listings[i].watch_info = watches[i]
                       /\ listings[i].price_usd = PricesInExtractionOrder[i]
        /\ message = "Sub 1680 $30000, GMT 1675 $18000"
              => /\ Len(listings) = 2
                 /\ listings[1].watch_info.reference = "1680"
                 /\ listings[1].price_usd = Dollars(30000)
                 /\ generate_comparison_key(listings[1].watch_info) = "1680-standard"
                 /\ listings[2].watch_info.reference = "1675"
                 /\ listings[2].price_usd = Dollars(18000)
                 /\ generate_comparison_key(listings[2].watch_info) = "1675-standard"

\* C7: one watch and one price are paired together; with differing non-zero
\* counts exactly one pair is emitted, a watch of the highest confidence with
\* the first discovered price.
C7_OneToOneAndFallback ==
    Parsed =>
        /\ (Len(watches) = 1 /\ Len(prices) = 1)
              => /\ Len(listings) = 1
                 /\ listings[1].watch_info = watches[1]
                 /\ listings[1].price_usd = prices[1]
        /\ (Len(watches) # Len(prices) /\ Len(watches) > 0 /\ Len(prices) > 0)
              => /\ Len(listings) = 1
                 /\ \E i \in 1..Len(watches) : listings[1].watch_info = watches[i]
                 /\ \A i \in 1..Len(watches) :
                       watches[i].confidence <= listings[1].watch_info.confidence
                 /\ listings[1].price_usd = DiscoveredPrices(message)[1]

\* C8: every price extract_prices or _extract_price returns lies in
\* [1000, 2000000]; 'Selling for $999' and 'Selling for $2,500,000' yield no
\* price and 'Selling for $42,000' yields 42000.0.
C8_PriceBand ==
    /\ Parsed =>
        /\ \A i \in 1..Len(prices) :
              1000 * 100 <= prices[i] /\ prices[i] <= 2000000 * 100
        /\ \A i \in 1..Len(listings) :
              1000 * 100 <= listings[i].price_usd /\ listings[i].price_usd <= 2000000 * 100
        /\ message \in {"Selling for $999", "Selling for $2,500,000"} => prices = <<>>
        /\ message = "Selling for $42,000" => prices = <<42000 * 100>>
    /\ PriceExtracted =>
        /\ enhanced_price # NoPrice
              => 1000 * 100 <= enhanced_price /\ enhanced_price <= 2000000 * 100
        /\ message \in {"Selling for $999", "Selling for $2,500,000"}
              => enhanced_price = NoPrice
        /\ message = "Selling for $42,000" => enhanced_price = 42000 * 100

\* Both extractors ran on a message with an amount above the ceiling and an
\* amount inside the band, and returned the one inside
C8_Witness ==
    /\ Parsed /\ PriceExtracted
    /\ Contains(message, "$2,500,000")
    /\ Contains(message, "$9000")
    /\ prices = <<Dollars(9000)>>
    /\ enhanced_price = Dollars(9000)

\* The 50 characters before and after the pattern match of a watch
Window(w) ==
    SubSeq(message, Max(1, w.match_start - 50), Min(Len(message), (w.match_end - 1) + 50))

\* Some pattern of the table is found in the text
FoundIn(patterns, text) ==
    \E k \in 1..Len(patterns) : Search(patterns[k].pattern, text).found

\* C9: a watch has a special edition, a material or a dial colour exactly when
\* a pattern of that kind occurs within the 50 characters before and after the
\* watch's own match, the attribute is then that of such a pattern, and the
\* confidence bonus (+0.2, +0.1, +0.1) is given for exactly those attributes.
C9_ContextWindow ==
    Parsed =>
        \A i \in 1..Len(watches) :
            LET w == watches[i]
                win == Window(w)
            IN  /\ (w.special_edition # None) <=> FoundIn(special_edition_patterns, win)
                /\ w.special_edition # None =>
                      \E k \in 1..Len(special_edition_patterns) :
                          /\ special_edition_patterns[k].edition = w.special_edition
                          /\ Search(special_edition_patterns[k].pattern, win).found
                /\ (w.material # None) <=> FoundIn(material_patterns, win)
                /\ w.material # None =>
                      \E k \in 1..Len(material_patterns) :
                          /\ material_patterns[k].material = w.material
                          /\ Search(material_patterns[k].pattern, win).found
                /\ (w.dial_color # None) <=> FoundIn(dial_patterns, win)
                /\ w.dial_color # None =>
                      \E k \in 1..Len(dial_patterns) :
                          /\ dial_patterns[k].dial = w.dial_color
                          /\ Search(dial_patterns[k].pattern, win).found
                /\ w.confidence = (IF w.model # None THEN 7 ELSE 5)
                                    + (IF w.special_edition # None THEN 2 ELSE 0)
                                    + (IF w.material # None THEN 1 ELSE 0)
                                    + (IF w.dial_color # None THEN 1 ELSE 0)

\* A message with two reference numbers and 'Tiffany' within 50 characters of
\* only one of them: that watch alone is a Tiffany & Co, with the bonus
C9_Witness ==
    /\ Parsed
    /\ Contains(message, "Tiffany")
    /\ \E i, j \in 1..Len(watches) :
          /\ watches[i].reference = "1680"
          /\ watches[i].special_edition = "Tiffany & Co"
          /\ watches[i].confidence >= 9
          /\ watches[j].reference = "1675"
          /\ watches[j].special_edition = None
          /\ ~Contains(Window(watches[j]), "Tiffany")
          /\ watches[j].confidence <= 8

\* ------------------------------------------------------------------------
\* Properties of the chat-side comparison key and of parse_message
\* ------------------------------------------------------------------------
\* The key of the i-th listing, as whatsapp_integration computes it
KeyOfListing(i) == generate_comparison_key(listings[i].watch_info)

\* C11: every key generated for an extracted candidate is lower-case and is
\* the reference followed by '-' and exactly one variation suffix (no further
\* '-'), the suffix being 'standard' when no attribute was detected; several
\* detected attributes still give one suffix.
C11_SingleSuffixKey ==
    Parsed =>
        \A i \in 1..Len(listings) :
            LET w == listings[i].watch_info
                n == Len(w.reference)
            IN  /\ KeyOfListing(i) = Lower(KeyOfListing(i))
                /\ Len(KeyOfListing(i)) > n + 1
                /\ SubSeq(KeyOfListing(i), 1, n + 1) = Lower(w.reference) \o "-"
                /\ ~Contains(SubSeq(KeyOfListing(i), n + 2, Len(KeyOfListing(i))), "-")
                /\ (w.special_edition = None /\ w.material = None /\ w.dial_color = None)
                      => KeyOfListing(i) = Lower(w.reference) \o "-standard"

\* C12: parse_message returns the empty list when the message is empty, has no
\* recognisable watch or has no price in the band ('', 'hello, how are you?',
\* 'Just checking prices on Sub 116610', '$45,000 for what model?'), and every
\* candidate it emits carries a price.
C12_NothingWithoutWatchAndPrice ==
    Parsed =>
        /\ (message = "" \/ watches = <<>> \/ prices = <<>>) => listings = <<>>
        /\ message \in {"", "hello, how are you?", "Just checking prices on Sub 116610",
                        "$45,000 for what model?"} => listings = <<>>
        /\ \A i \in 1..Len(listings) :
              /\ listings[i].price_usd \in Nat
              /\ \E k \in 1..Len(prices) : listings[i].price_usd = prices[k]

\* A watch was recognised, no price was found, and nothing was emitted
C12_Witness ==
    /\ Parsed
    /\ message = "Just checking prices on Sub 116610"
    /\ Len(watches) = 1 /\ watches[1].reference = "116610"
    /\ prices = <<>>
    /\ listings = <<>>

\* C13: for every input string parse_message returns a list, possibly empty:
\* no exception raised while extracting, matching or building the candidates
\* reaches the caller.
C13_AlwaysReturnsAList ==
    /\ raised = {}
    /\ Parsed => DOMAIN listings = 1..Len(listings)

\* A price match that float() rejects: the call still returned its list
C13_Witness ==
    /\ Parsed
    /\ RaisedInPriceLoop(message) = {"ValueError"}
    /\ raised = {}
    /\ Len(listings) = 1 /\ listings[1].price_usd = Dollars(9000)

\* ------------------------------------------------------------------------
\* Properties of batch processing
\* ------------------------------------------------------------------------
BatchParsed == "parse_whatsapp_export" \in calls

\* The batch b without its j-th message
Without(b, j) == SubSeq(b, 1, j - 1) \o SubSeq(b, j + 1, Len(b))

\* C14: a message of the batch whose timestamp or header is malformed is
\* skipped on its own: the listings returned for the export are those returned
\* for the export without that message.
C14_MalformedMessageSkipped ==
    BatchParsed =>
        \A j \in 1..Len(batch) :
            batch[j].header \in MalformedHeaders =>
                all_listings = parse_whatsapp_export(ExportOf(Without(batch, j)))

\* ------------------------------------------------------------------------
\* Properties of the price history and of the store
\* ------------------------------------------------------------------------
\* The price stored for source_id before the call
StoredPrice(source_id) == db.watch_listings[FirstRow(db.watch_listings, source_id)].price_usd

\* The call added exactly the one record of source_id with these two prices
Recorded(source_id, price_usd, previous_price) ==
    db'.price_history =
        Append(db.price_history, [source_id |-> source_id, price_usd |-> price_usd,
                                  previous_price |-> previous_price])

\* What one observation must do to the price history
RecordsAsItShould(d) ==
    IF FirstRow(db.watch_listings, d.source_id) = 0
    THEN Recorded(d.source_id, d.price_usd, NoPrice)
    ELSE IF d.price_usd # NoPrice /\ d.price_usd # StoredPrice(d.source_id)
    THEN Recorded(d.source_id, d.price_usd, StoredPrice(d.source_id))
            /\ result' = "price_change"
    ELSE /\ db'.price_history = db.price_history
         /\ d.price_usd = StoredPrice(d.source_id) => result' = "updated"

\* C15: process_single_listing records one initial price-history row (no
\* previous price) when the source_id is new, one row with the stored price as
\* previous_price and the new price each time an existing listing is observed
\* with a different non-null price (result 'price_change'), and no row when
\* the observed price equals the stored one (result 'updated').
C15_HistoryExactlyWhenItShould ==
    [][\A d \in Observations :
          (d.source_id # "" /\ ProcessSingleListing(d)) => RecordsAsItShould(d)]_vars

\* C16: after any sequence of process_single_listing calls the store holds at
\* most one WatchListing per source_id: the first observation inserts, later
\* ones update the row in place.
C16_OneListingPerSourceId ==
    \A source_id \in SourceIds :
        /\ Cardinality(RowsOf(db.watch_listings, source_id)) <= 1
        /\ Cardinality(RowsOf(committed.watch_listings, source_id)) <= 1

\* A listing observed three times at three prices is one row with the last price
C16_Witness ==
    /\ ncalls = 3
    /\ Len(db.price_history) = 3
    /\ \A k \in 1..3 : db.price_history[k].source_id = "bobs-1680"
    /\ RowsOf(db.watch_listings, "bobs-1680") = {1}
    /\ db.watch_listings[1].price_usd = db.price_history[3].price_usd

SequentialResult(w) ==
    IF frames[w].op = "extract" THEN parse_message(frames[w].message)
    ELSE detect_watch_variations(frames[w].listing0)

\* What the call of worker w returned
ConcurrentResult(w) ==
    IF frames[w].op = "extract" THEN frames[w].ret ELSE frames[w].listing

\* C18: calls of the classifier and of the extractor that run concurrently on
\* one shared instance return, in every interleaving, what they return alone;
\* the pattern tables stay as constructed.
C18_InterleavingsAreSequential ==
    /\ tables = Tables
    /\ \A w \in DOMAIN frames :
          frames[w].pc = "done" => ConcurrentResult(w) = SequentialResult(w)

\* Two extractions of different messages have both returned candidates
C18_Witness ==
    /\ DOMAIN frames = Workers
    /\ \A w \in Workers : frames[w].pc = "done" /\ frames[w].op = "extract"
    /\ frames["w1"].message # frames["w2"].message
    /\ frames["w1"].ret # <<>> /\ frames["w2"].ret # <<>>

\* ------------------------------------------------------------------------
\* Properties of the confidence and of the missing reference
\* ------------------------------------------------------------------------
\* A bonus of b tenths when earned
Bonus(earned, b) == IF earned THEN b ELSE 0

\* C19: the confidence of an emitted candidate is its base (0.7 with a model,
\* 0.5 without) plus 0.2 for a special edition, 0.1 for a material, 0.1 for a
\* dial colour and 0.1 for a price in [5000, 500000]; it is not clamped and
\* lies between 0.5 and 1.2.  Confidences are in tenths; the floats of the code
\* are these sums rounded step by step and stay within the same bounds.
C19_ConfidenceIsBasePlusBonuses ==
    Parsed =>
        \A i \in 1..Len(listings) :
            LET w == listings[i].watch_info
            IN  /\ listings[i].confidence =
                      (IF w.model # None THEN 7 ELSE 5)
                        + Bonus(w.special_edition # None, 2)
                        + Bonus(w.material # None, 1)
                        + Bonus(w.dial_color # None, 1)
                        + Bonus(Dollars(5000) <= listings[i].price_usd
                                  /\ listings[i].price_usd <= Dollars(500000), 1)
                /\ 5 <= listings[i].confidence /\ listings[i].confidence <= 12

\* A candidate whose confidence exceeds 1.0
C19_Witness ==
    /\ Parsed
    /\ \E i \in 1..Len(listings) :
          /\ listings[i].confidence > 10
          /\ listings[i].watch_info.special_edition # None
          /\ listings[i].watch_info.dial_color # None

\* The suffix of the first rule that applies to the text, 'standard' if none
SuffixByRuleScan(text) ==
    IF \E k \in 1..Len(variations) : RuleApplies(k, text)
    THEN variations[CHOOSE k \in 1..Len(variations) :
                        /\ RuleApplies(k, text)
                        /\ \A j \in 1..(k - 1) : ~RuleApplies(j, text)].suffix
    ELSE "standard"

\* C20: a listing without a reference number (the key missing or null) is
\* classified all the same: its key is 'unknown-<tag>', the tag chosen by the
\* rule scan.
C20_UnknownReference ==
    (Classified /\ listing.reference_number \in {Absent, None})
    => listing.comparison_key = "unknown-" \o SuffixByRuleScan(LoweredText(listing))

\* The listing with another title, as it is handed to the classifier
Retitled(l, t) == [l EXCEPT !.title = t, !.comparison_key = Absent]

\* The rule the scan stops at for the listing (0: none)
RuleOf(l) == ScanVariations(SearchText(l), 1)

\* The titles made of one phrase, and the empty title
OtherTitles == {TitlePhrases[k] : k \in 1..Len(TitlePhrases)} \cup {""}

\* The listing of rule r has another key than the listing other, unless the
\* scan stops at rule r for that one too
KeysApart(l, r, other) ==
    RuleOf(other) # r
    => detect_watch_variations(other).comparison_key # l.comparison_key

\* C21: for a fixed reference number, two search texts that resolve to
\* different rules (or one to a rule and the other to none) get different
\* comparison keys; distinct rules of the table have distinct suffixes and no
\* rule's suffix is 'standard'.
C21_DifferentRulesDifferentKeys ==
    /\ \A j \in 1..Len(variations) : \A k \in 1..Len(variations) :
          j # k => variations[j].suffix # variations[k].suffix
    /\ \A k \in 1..Len(variations) : variations[k].suffix # "standard"
    /\ Classified =>
          \A t \in OtherTitles : KeysApart(listing, RuleOf(listing), Retitled(listing, t))

\* A listing classified tiffany, next to titles of the same reference that
\* resolve to no rule and to a generic rule
C21_Witness ==
    /\ Classified
    /\ RuleOf(listing) = 1
    /\ listing.reference_number = "16220"
    /\ \E t \in OtherTitles :
          /\ RuleOf(Retitled(listing, t)) = 0
          /\ detect_watch_variations(Retitled(listing, t)).comparison_key = "16220-standard"
    /\ \E t \in OtherTitles :
          /\ RuleOf(Retitled(listing, t)) > 9
          /\ detect_watch_variations(Retitled(listing, t)).comparison_key
                # listing.comparison_key

\* ------------------------------------------------------------------------
\* Properties of the enhanced processor
\* ------------------------------------------------------------------------
WatchExtracted == "extract_watch_listing" \in calls

\* The entries of enhanced_rolex_patterns that name a model
ModelQualified == {k \in 1..Len(enhanced_rolex_patterns) :
                      enhanced_rolex_patterns[k].model # None}

\* The bare reference-number entries (6, 5 and 4 digits)
BareEntries == 1..3

\* Entry k of the table is found in the lower-cased message
RolexEntryFound(k) == Search(enhanced_rolex_patterns[k].pattern, Lower(message)).found

\* C22: in extract_watch_listing the bare reference patterns are a fallback:
\* when a model-qualified pattern matches, the listing has the model of the
\* first such pattern and confidence 0.9 ('Submariner 116610LN, full set' is a
\* Submariner at 0.9); the bare patterns (model null, 0.8 / 0.7 / 0.6) decide
\* only when no model-qualified pattern matches.
C22_BarePatternsAreFallback ==
    WatchExtracted =>
        /\ message = "Submariner 116610LN, full set" =>
              /\ enhanced_listing.found
              /\ enhanced_listing.model = "Submariner"
              /\ enhanced_listing.confidence = 9
        /\ \A k \in ModelQualified :
              (RolexEntryFound(k) /\ \A j \in ModelQualified : j < k => ~RolexEntryFound(j))
              => /\ enhanced_listing.found
                 /\ enhanced_listing.model = enhanced_rolex_patterns[k].model
                 /\ enhanced_listing.confidence = 9
        /\ \A k \in BareEntries :
              (/\ \A j \in ModelQualified : ~RolexEntryFound(j)
               /\ RolexEntryFound(k)
               /\ \A j \in BareEntries : j < k => ~RolexEntryFound(j))
              => /\ enhanced_listing.found
                 /\ enhanced_listing.model = None
                 /\ enhanced_listing.confidence = enhanced_rolex_patterns[k].confidence

\* ------------------------------------------------------------------------
\* Properties of process_listings
\* ------------------------------------------------------------------------
\* The rows of the batch that the committed table holds afterwards as the
\* batch gave them, among those whose source_id was (was not) there before
WrittenRows(before, after, scraped, known) ==
    {k \in 1..Len(scraped) :
        /\ (RowsOf(before, scraped[k].source_id) # {}) = known
        /\ \E i \in RowsOf(after, scraped[k].source_id) : after[i] = scraped[k]}

\* A batch as run_full_update hands it over: every source_id once
DistinctIds(scraped) ==
    \A j \in 1..Len(scraped) : \A k \in 1..Len(scraped) :
        j # k => scraped[j].source_id # scraped[k].source_id

CountsAreRows(scraped) ==
    report'.returned =>
        /\ report'.new_count =
              Len(committed'.watch_listings) - Len(committed.watch_listings)
        /\ DistinctIds(scraped) =>
              /\ report'.new_count =
                    Cardinality(WrittenRows(committed.watch_listings,
                                            committed'.watch_listings, scraped, FALSE))
              /\ report'.updated_count =
                    Cardinality(WrittenRows(committed.watch_listings,
                                            committed'.watch_listings, scraped, TRUE))

\* C23: when process_listings returns, new_count and updated_count are the
\* numbers of rows the batch inserted into and updated in the committed
\* table; a listing whose creation failed takes no earlier listing with it.
C23_CountsAreRowsWritten ==
    [][\A scraped \in ListingBatches : ProcessListings(scraped) => CountsAreRows(scraped)]_vars

\* ------------------------------------------------------------------------
\* Properties of the ingestion of chat exports
\* ------------------------------------------------------------------------
SourceIdsOf(processed_listings) ==
    [k \in 1..Len(processed_listings) |-> processed_listings[k].source_id]

\* C24: the listings of an export get the same source_id at every ingestion
\* of that export, and a second ingestion adds no row to watch_listings.
C24_ReingestionIsIdempotent ==
    [][/\ (nruns >= 1 /\ nruns' = nruns + 1) =>
             SourceIdsOf(processed') = SourceIdsOf(processed)
       /\ (nruns >= 2 /\ report' # report) =>
             Len(committed'.watch_listings) = Len(committed.watch_listings)]_vars

\* The reference numbers of the watches found in the message
ReferencesOf(found) == {found[k].reference : k \in 1..Len(found)}

\* C25: parse_message emits no more candidates than the message mentions
\* distinct reference numbers: one mention that several patterns match gives
\* one candidate, also when the message has two prices.
C25_OneCandidatePerReference ==
    Parsed => Len(listings) <= Cardinality(ReferencesOf(watches))

\* ------------------------------------------------------------------------
\* Properties of save_enhanced_listings
\* ------------------------------------------------------------------------
HasPrice(l) == l.price_usd # NoPrice

Unrecorded(d) ==
    {i \in 1..Len(d.watch_listings) :
        /\ d.watch_listings[i].comparison_key # None
        /\ RowsOf(d.price_history, d.watch_listings[i].source_id) = {}}

\* The records of the table from position n + 1 on
NewRecords(price_history, n) == {k \in 1..Len(price_history) : k > n}

\* The run added one initial record for each of these listings and no other
OneInitialRecordEach ==
    /\ SubSeq(db'.price_history, 1, Len(db.price_history)) = db.price_history
    /\ report'.count = Cardinality(Unrecorded(db))
    /\ Len(db'.price_history) = Len(db.price_history) + Cardinality(Unrecorded(db))
    /\ \A i \in Unrecorded(db) :
          \E k \in NewRecords(db'.price_history, Len(db.price_history)) :
              db'.price_history[k] =
                  [source_id |-> db.watch_listings[i].source_id,
                   price_usd |-> db.watch_listings[i].price_usd,
                   previous_price |-> NoPrice]

\* C27: backfill_price_history creates one initial record (previous_price
\* null) for each listing that has a comparison key and no record for its
\* source_id; a second run right after the first creates none and returns 0.
C27_BackfillIsIdempotent ==
    [][BackfillPriceHistory =>
          /\ OneInitialRecordEach
          /\ "backfill_price_history" \in calls => (report'.count = 0 /\ db' = db)]_vars

\* A first run recorded two listings and a second run returned 0
C27_Witness ==
    /\ nruns = 2
    /\ report.count = 0
    /\ Len(db.watch_listings) = 2
    /\ Len(db.price_history) = 2
    /\ \A i \in 1..2 : db.watch_listings[i].comparison_key # None
    /\ \A k \in 1..2 : db.price_history[k].previous_price = NoPrice
    /\ committed = db

\* ------------------------------------------------------------------------
\* The variation fields of a classified listing
\* ------------------------------------------------------------------------
\* The two fields are those of a rule whose suffix is the tag
FieldsOfTheTagRule(l) ==
    \E k \in 1..Len(variations) :
        /\ variations[k].suffix = TagOf(l)
        /\ l.dial_type = variations[k].dial_type
        /\ l.special_edition = variations[k].special_edition

\* C28: after detect_watch_variations dial_type and special_edition are both
\* null exactly when the tag is 'standard'; otherwise both are those of the
\* rule that gave the suffix; the values the listing had before are gone.
C28_FieldsFollowTheTag ==
    [][DetectWatchVariations =>
          /\ (listing'.dial_type = None) = (TagOf(listing') = "standard")
          /\ (listing'.special_edition = None) = (TagOf(listing') = "standard")
          /\ TagOf(listing') # "standard" => FieldsOfTheTagRule(listing')
          /\ listing.dial_type = "Old" =>
                (listing'.dial_type # "Old" /\ listing'.special_edition # "Old")]_vars

\* A listing classified 'kermit' carries the two fields of the kermit rule
C28_Witness ==
    /\ Classified
    /\ TagOf(listing) = "kermit"
    /\ listing.dial_type = "Kermit"
    /\ listing.special_edition = "Kermit (Green Bezel)"

\* ------------------------------------------------------------------------
\* Properties of get_page
\* ------------------------------------------------------------------------
Failures(f) == {k \in 1..Len(f.responses) : f.responses[k] # "200"}

\* The waits of BaseScraper after n failed attempts: 1 s, then 2 s
BackOffs(n) == [k \in 1..n |-> Pow2(k - 1)]

GetPageIsBounded ==
    /\ Len(fetch.responses) <= 3
    /\ fetch.returned = Page <=>
          /\ fetch.responses # <<>>
          /\ Failures(fetch) = 1..(Len(fetch.responses) - 1)
    /\ fetch.returned = None <=>
          /\ Len(fetch.responses) = 3
          /\ Failures(fetch) = 1..3
    /\ fetch.scraper = "BaseScraper" =>
          fetch.sleeps = BackOffs(IF fetch.returned = None THEN 2
                                  ELSE Cardinality(Failures(fetch)))

\* C29: get_page of BaseScraper and of Chrono24Scraper returns after at most
\* 3 requests: the page at the first successful response, None when all have
\* failed; BaseScraper waits 2^attempt seconds (1 s, 2 s) after each failed
\* attempt but the last.
C29_GetPageTerminates ==
    /\ []GetPageIsBounded
    /\ <>(fetch.returned # Running)

\* BaseScraper gave up after three failed requests and two waits
C29_Witness ==
    /\ fetch.scraper = "BaseScraper"
    /\ fetch.returned = None
    /\ Len(fetch.responses) = 3
    /\ fetch.sleeps = <<1, 2>>

\* ------------------------------------------------------------------------
\* Properties of run_full_update
\* ------------------------------------------------------------------------
\* The source_ids on the pages that were scraped without an exception
ScrapedIds(o) ==
    {o.pages[k].listings[i].source_id :
        k \in {j \in 1..Len(o.pages) : ~o.pages[j].raises /\ o.pages[j].listings # <<>>},
        i \in {1}} \ {""}

\* What the run that took this step returned, the collaborators doing as in o
ReportsItsRun(o) ==
    /\ report'.returned
    /\ raised' = raised
    /\ report'.scraped_listings = Cardinality(ScrapedIds(o))
    /\ report'.errors \in {0, 1}
    /\ report'.errors = 1 =>
          \/ o.summary_raises
          \/ NullPrice(ProcessFrom(db, committed,
                                   scrape_bobs_watches_multiple_pages(o.pages), 1,
                                   NoCounts).db.watch_listings)
    /\ (o.summary_raises /\ ScrapedIds(o) # {}) => report'.errors = 1
    /\ ScrapedIds(o) = {} =>
          /\ report'.new_listings = 0
          /\ report'.updated_listings = 0
          /\ report'.price_changes = 0
          /\ db' = db
          /\ committed' = committed

====
